---- MODULE Spec2Model ----
(***************************************************************************)
(* A state-machine model of the conversational RAG repository:            *)
(*   - AdvancedMemoryManager  (src/advanced_memory_manager.py)             *)
(*   - AdvancedKnowledgeBase  (src/advanced_knowledge_base.py)             *)
(*                                                                         *)
(* Representation of values                                                *)
(*   text       a Python str is the sequence of its whitespace-separated  *)
(*              tokens in their original case (str.split() returns it);   *)
(*              tokens are joined by single spaces                         *)
(*   dict       a function whose DOMAIN is the set of keys; a dict whose  *)
(*              iteration order is read (health_interests) is a sequence  *)
(*              of <<key, value>> pairs in insertion order                 *)
(*   datetime   an integer number of days; isoformat()/fromisoformat() of *)
(*              a naive datetime is an exact round trip, and ISO strings  *)
(*              of one format compare like the instants they denote        *)
(*   float      a score in [0,1] is an integer number of 1/ScoreUnit,     *)
(*              rounded down                                               *)
(***************************************************************************)
EXTENDS Integers, Sequences, FiniteSets, TLC

(***************************************************************************)
(* Bounds of the exploration                                               *)
(***************************************************************************)
MaxTurns == 2
MaxDocs == 2
MaxClock == 45
MaxLongTerm == 2
FlowTurns == 19
MaxWindow == 5
TickDays == 15

ScoreUnit == 100 * 100

None == "<None>"

Sessions == {"s1", "s2"}
Users == {"u1", "u2"}
UserArgs == Users \cup {None}

(* bool(x) of an Optional[str] argument *)
Truthy(x) == x # None /\ x # ""

(***************************************************************************)
(* The user messages and queries drawn as inputs                           *)
(***************************************************************************)
MsgHeadache == <<"I", "have", "a", "mild", "headache">>
MsgDiagnosis == <<"I", "need", "information", "about", "my", "Diagnosis">>
MsgFever == <<"fever", "cough", "pain">>
MsgLong == <<"please", "tell", "someone", "about", "this", "strange", "feeling",
             "that", "keeps", "coming", "back", "after", "diagnosis">>
MsgEmpty == << >>

Messages == {MsgHeadache, MsgDiagnosis, MsgFever, MsgLong, MsgEmpty}
Queries == {MsgDiagnosis, MsgFever, MsgEmpty}

(***************************************************************************)
(* str.lower() on the tokens of the vocabulary                             *)
(***************************************************************************)
LowerMap == ("I" :> "i") @@ ("Diagnosis" :> "diagnosis") @@ ("Flu" :> "flu")
            @@ ("Rest" :> "rest") @@ ("Treatment" :> "treatment")

Lower(w) == IF w \in DOMAIN LowerMap THEN LowerMap[w] ELSE w

(* text.lower().split(): the empty token (a blank line inside a document
   content) is white space and yields no word *)
LowerSplit(text) ==
    LET tokens == SelectSeq(text, LAMBDA w : w # "")
    IN  [i \in 1..Len(tokens) |-> Lower(tokens[i])]

RECURSIVE CountIn(_, _)
(* sum(1 for word in words if word in S) *)
CountIn(words, S) ==
    IF words = << >> THEN 0
    ELSE (IF Head(words) \in S THEN 1 ELSE 0) + CountIn(Tail(words), S)

Take(s, n) == SubSeq(s, 1, IF n < Len(s) THEN n ELSE Len(s))

Range(s) == {s[i] : i \in 1..Len(s)}

Min(a, b) == IF a < b THEN a ELSE b

(***************************************************************************)
(* AdvancedMemoryManager: configuration (__init__)                         *)
(***************************************************************************)
max_context_window == 10
memory_retention_days == 30
relevance_threshold == (7 * ScoreUnit) \div 10

(***************************************************************************)
(* AdvancedMemoryManager: the pure helpers                                 *)
(***************************************************************************)
health_keywords == {"health", "medical", "doctor", "symptom", "treatment",
                    "medicine", "pain", "fever", "cough", "headache"}

stop_words == {"the", "a", "an", "and", "or", "but", "in", "on", "at", "to",
               "for", "of", "with", "by"}

positive_words == {"good", "great", "excellent", "happy", "better", "improved",
                   "helpful"}

negative_words == {"bad", "terrible", "pain", "hurt", "sick", "worried",
                   "anxious", "depressed"}

important_keywords == {"emergency", "symptom", "treatment", "medication",
                       "diagnosis"}

(* keyword_count / len(words) raises ZeroDivisionError when text has no token *)
RelevanceRaises(text) == Len(LowerSplit(text)) = 0

(* min(1.0, (keyword_count / len(words)) * 2 + (len(words) / 50)) *)
calculate_relevance_score(text) ==
    LET words == LowerSplit(text)
        keyword_count == CountIn(words, health_keywords)
    IN  Min(ScoreUnit, (2 * ScoreUnit * keyword_count) \div Len(words)
                       + (ScoreUnit * Len(words)) \div 50)

IsKeyword(word) == word \notin stop_words /\ Len(word) > 2

(* [word for word in words if word not in stop_words and len(word) > 2][:10] *)
extract_keywords(text) == Take(SelectSeq(LowerSplit(text), IsKeyword), 10)

analyze_sentiment(text) ==
    LET words == LowerSplit(text)
        positive_count == CountIn(words, positive_words)
        negative_count == CountIn(words, negative_words)
    IN  IF positive_count > negative_count THEN "positive"
        ELSE IF negative_count > positive_count THEN "negative"
        ELSE "neutral"

(* the memory_entry dict literal of add_session_memory *)
MemoryEntry(session_id, user_id, user_message, assistant_response, timestamp) ==
    [session_id |-> session_id,
     user_id |-> IF Truthy(user_id) THEN user_id ELSE "anonymous",
     user_message |-> user_message,
     assistant_response |-> assistant_response,
     timestamp |-> timestamp,
     context |-> << >>,
     memory_type |-> "session",
     relevance_score |-> calculate_relevance_score(user_message),
     keywords |-> extract_keywords(user_message),
     sentiment |-> analyze_sentiment(user_message)]

RECURSIVE CharPrefix(_, _)
(* s[:n] of a text: the tokens that fit whole, and how many characters of the
   next token are kept *)
CharPrefix(text, n) ==
    IF text = << >> \/ n <= 0 THEN [whole |-> << >>, cut |-> 0]
    ELSE IF Len(Head(text)) <= n
         THEN LET r == CharPrefix(Tail(text), n - Len(Head(text)) - 1)
              IN  [whole |-> <<Head(text)>> \o r.whole, cut |-> r.cut]
         ELSE [whole |-> << >>, cut |-> n]

(* _create_default_profile *)
create_default_profile(t) ==
    [user_id |-> "anonymous",
     total_conversations |-> 0,
     total_messages |-> 0,
     health_interests |-> << >>,
     sentiment_distribution |-> [positive |-> 0, negative |-> 0, neutral |-> 0],
     personality_traits |-> << >>,
     conversation_style |-> "formal",
     last_interaction |-> t,
     preferences |-> [response_length |-> "medium", technical_level |-> "general",
                      emotion_support |-> TRUE]]

(* profile['health_interests'][keyword] += 1, or = 1 for a new key *)
BumpInterest(interests, keyword) ==
    IF \E i \in 1..Len(interests) : interests[i][1] = keyword
    THEN [i \in 1..Len(interests) |->
            IF interests[i][1] = keyword
            THEN <<keyword, interests[i][2] + 1>> ELSE interests[i]]
    ELSE Append(interests, <<keyword, 1>>)

RECURSIVE BumpInterests(_, _)
BumpInterests(interests, keywords) ==
    IF keywords = << >> THEN interests
    ELSE BumpInterests(BumpInterest(interests, Head(keywords)), Tail(keywords))

(* _update_user_profile: the profiles dict after the call *)
update_user_profile(profiles, user_id, memory_entry) ==
    LET profile == IF user_id \in DOMAIN profiles THEN profiles[user_id]
                   ELSE create_default_profile(memory_entry.timestamp)
        updated == [profile EXCEPT
            !.total_conversations = @ + 1,
            !.total_messages = @ + 1,
            !.health_interests = BumpInterests(@, memory_entry.keywords),
            !.sentiment_distribution[memory_entry.sentiment] = @ + 1,
            !.last_interaction = memory_entry.timestamp]
    IN  [u \in DOMAIN profiles \cup {user_id} |->
            IF u = user_id THEN updated ELSE profiles[u]]

(* a faulty context update: the flow is cut to its first 20 records *)
update_conversation_context_oldest(contexts, session_id, memory_entry) ==
    LET context == IF session_id \in DOMAIN contexts THEN contexts[session_id]
                   ELSE [current_topic |-> "", conversation_flow |-> << >>,
                         user_preferences |-> {}, assistant_responses |-> << >>]
        keywords == memory_entry.keywords
        topic == IF keywords # << >> THEN keywords[1] ELSE context.current_topic
        flow == Append(context.conversation_flow,
                       [timestamp |-> memory_entry.timestamp,
                        user_message |-> <<CharPrefix(memory_entry.user_message, 50), "...">>,
                        sentiment |-> memory_entry.sentiment])
        bounded == IF Len(flow) > 20 THEN SubSeq(flow, 1, 20) ELSE flow
        updated == [context EXCEPT !.current_topic = topic,
                                   !.conversation_flow = bounded]
    IN  [s \in DOMAIN contexts \cup {session_id} |->
            IF s = session_id THEN updated ELSE contexts[s]]

(* _update_conversation_context: the contexts dict after the call *)
update_conversation_context(contexts, session_id, memory_entry) ==
    LET context == IF session_id \in DOMAIN contexts THEN contexts[session_id]
                   ELSE [current_topic |-> "", conversation_flow |-> << >>,
                         user_preferences |-> {}, assistant_responses |-> << >>]
        keywords == memory_entry.keywords
        topic == IF keywords # << >> THEN keywords[1] ELSE context.current_topic
        flow == Append(context.conversation_flow,
                       [timestamp |-> memory_entry.timestamp,
                        user_message |-> <<CharPrefix(memory_entry.user_message, 50), "...">>,
                        sentiment |-> memory_entry.sentiment])
        bounded == IF Len(flow) > 20 THEN SubSeq(flow, Len(flow) - 19, Len(flow))
                   ELSE flow
        updated == [context EXCEPT !.current_topic = topic,
                                   !.conversation_flow = bounded]
    IN  [s \in DOMAIN contexts \cup {session_id} |->
            IF s = session_id THEN updated ELSE contexts[s]]

(* a faulty gate: the priority keywords are not looked at *)
promote_on_score_only(memory_entry) ==
    memory_entry.relevance_score > (8 * ScoreUnit) \div 10

(* _should_promote_to_long_term *)
should_promote_to_long_term(memory_entry) ==
    LET has_important_keywords ==
            \E i \in 1..Len(memory_entry.keywords) :
                memory_entry.keywords[i] \in important_keywords
    IN  memory_entry.relevance_score > (8 * ScoreUnit) \div 10
        \/ has_important_keywords

(* a faulty promotion: the entry itself is appended, unmarked *)
LongTermEntryUnmarked(memory_entry, t) == memory_entry

(* _promote_to_long_term: memory_entry.copy() with two keys set *)
LongTermEntry(memory_entry, t) ==
    [k \in DOMAIN memory_entry \cup {"promoted_at"} |->
        IF k = "memory_type" THEN "long_term"
        ELSE IF k = "promoted_at" THEN t
        ELSE memory_entry[k]]

(* a faulty sweep: the cutoff a year back instead of memory_retention_days *)
FreshWithinYear(memory, t) == memory.timestamp > t - 365

(* a faulty sweep: the cutoff a week back instead of memory_retention_days *)
FreshWithinWeek(memory, t) == memory.timestamp > t - 7

(* the comprehension of _cleanup_old_memories: keep timestamp > cutoff_date *)
Fresh(memory, t) == memory.timestamp > t - memory_retention_days

KeepFresh(memories, t) == SelectSeq(memories, LAMBDA m : Fresh(m, t))

(* the session loop of _cleanup_old_memories *)
CleanupSessions(sessions, t) ==
    [s \in {x \in DOMAIN sessions : KeepFresh(sessions[x], t) # << >>} |->
        KeepFresh(sessions[s], t)]

(* sorted(..., reverse=True) / list.sort(reverse=True): a stable sort of
   [k |-> key, v |-> item] pairs by decreasing key; keys are tuples of integers
   compared as Python compares tuples *)
RECURSIVE KeyLess(_, _)
KeyLess(a, b) ==
    IF a = << >> THEN b # << >>
    ELSE IF b = << >> THEN FALSE
    ELSE IF Head(a) # Head(b) THEN Head(a) < Head(b)
    ELSE KeyLess(Tail(a), Tail(b))

InsertDesc(sorted, x) ==
    LET idx == Cardinality({i \in 1..Len(sorted) : ~KeyLess(sorted[i].k, x.k)})
    IN  SubSeq(sorted, 1, idx) \o <<x>> \o SubSeq(sorted, idx + 1, Len(sorted))

RECURSIVE SortDesc(_)
SortDesc(s) ==
    IF s = << >> THEN << >>
    ELSE InsertDesc(SortDesc(SubSeq(s, 1, Len(s) - 1)), s[Len(s)])

Values(pairs) == [i \in 1..Len(pairs) |-> pairs[i].v]

(* _analyze_personality, for a stored profile *)
analyze_personality(profile) ==
    LET sentiment_dist == profile.sentiment_distribution
        total_messages == sentiment_dist.positive + sentiment_dist.negative
                          + sentiment_dist.neutral
        interests == Len(profile.health_interests)
    IN  IF total_messages = 0 THEN << >>
        ELSE [optimism_level |->
                 IF 10 * sentiment_dist.positive > 6 * total_messages THEN "high"
                 ELSE IF 10 * sentiment_dist.negative > 6 * total_messages THEN "low"
                 ELSE "balanced",
              engagement_level |->
                 IF total_messages > 10 THEN "high"
                 ELSE IF total_messages > 5 THEN "medium" ELSE "low",
              health_consciousness |->
                 IF interests > 5 THEN "high"
                 ELSE IF interests > 2 THEN "medium" ELSE "low"]

(* _analyze_conversation_style, for a stored profile *)
analyze_conversation_style(profile) ==
    IF profile.total_messages < 3 THEN "formal"
    ELSE IF profile.total_messages > 10 THEN "casual"
    ELSE "mixed"

(* _analyze_health_interests: dict(sorted(items, by count, reverse)[:5]) *)
analyze_health_interests(profile) ==
    LET items == profile.health_interests
        keyed == [i \in 1..Len(items) |-> [k |-> <<items[i][2]>>, v |-> items[i]]]
    IN  Take(Values(SortDesc(keyed)), 5)

(* get_user_profile: what the three assignments make of the profile dict *)
DerivedProfile(profile) ==
    LET p1 == [profile EXCEPT !.personality_traits = analyze_personality(profile)]
        p2 == [p1 EXCEPT !.conversation_style = analyze_conversation_style(p1)]
    IN  [p2 EXCEPT !.health_interests = analyze_health_interests(p2)]

(* a faulty loop body: no entry is skipped *)
SkipsNothing(user_id, memory) == FALSE

(* the loop body of get_relevant_long_term_memories: the privacy skip *)
SkipsMemory(user_id, memory) == Truthy(user_id) /\ memory.user_id # user_id

(* a faulty score: both parts weighted 0.5 *)
SimilarityEqualWeights(query, memory) ==
    LET keyword_overlap ==
            Cardinality(Range(extract_keywords(query)) \cap Range(memory.keywords))
        diff == calculate_relevance_score(query) - memory.relevance_score
        relevance_similarity == ScoreUnit - (IF diff < 0 THEN -diff ELSE diff)
    IN  5 * keyword_overlap * ScoreUnit + 5 * relevance_similarity

(* keyword_overlap * 0.6 + relevance_similarity * 0.4, in tenths of a ScoreUnit *)
SimilarityTenths(query, memory) ==
    LET keyword_overlap ==
            Cardinality(Range(extract_keywords(query)) \cap Range(memory.keywords))
        diff == calculate_relevance_score(query) - memory.relevance_score
        relevance_similarity == ScoreUnit - (IF diff < 0 THEN -diff ELSE diff)
    IN  6 * keyword_overlap * ScoreUnit + 4 * relevance_similarity

(* get_relevant_long_term_memories *)
relevant_long_term_memories(memories, query, user_id, limit) ==
    LET kept == SelectSeq(memories, LAMBDA m :
                    ~SkipsMemory(user_id, m)
                    /\ SimilarityTenths(query, m) >= 10 * relevance_threshold)
        scored == [i \in 1..Len(kept) |->
                    LET score == SimilarityTenths(query, kept[i]) \div 10
                    IN  [k |-> <<score>>,
                         v |-> [f \in DOMAIN kept[i] \cup {"similarity_score"} |->
                                  IF f = "similarity_score" THEN score
                                  ELSE kept[i][f]]]]
    IN  Take(Values(SortDesc(scored)), limit)

(* a faulty erase: entries of unnamed callers go with every user's *)
NotOwnedByOrAnonymous(memories, user_id) ==
    SelectSeq(memories, LAMBDA m : m.user_id # user_id /\ m.user_id # "anonymous")

(* the list comprehensions of clear_user_data *)
NotOwnedBy(memories, user_id) == SelectSeq(memories, LAMBDA m : m.user_id # user_id)

ClearSessions(sessions, user_id) ==
    [s \in {x \in DOMAIN sessions : NotOwnedBy(sessions[x], user_id) # << >>} |->
        NotOwnedBy(sessions[s], user_id)]

(***************************************************************************)
(* AdvancedKnowledgeBase: configuration (__init__)                         *)
(***************************************************************************)
default_embedding_dimension == 384
chunk_size == 512
chunk_overlap == 50
max_chunks_per_document == 10
kb_relevance_threshold == (6 * ScoreUnit) \div 10
similarity_weights == [semantic |-> 7, keyword |-> 2, category |-> 1]

(***************************************************************************)
(* Documents.  A content is a sequence of paragraphs (separated by a blank *)
(* line), a paragraph a sequence of sentences, a sentence its words and   *)
(* the terminal punctuation that follows the last word ("" for none).     *)
(***************************************************************************)
Sentence(words, end) == [words |-> words, end |-> end]

DocFlu == [title |-> "Flu Care", category |-> "treatment",
           content |-> << <<Sentence(<<"Flu", "Treatment", "needs", "rest">>, ".")>> >>]

DocNote == [title |-> "Note", category |-> "notes",
            content |-> << <<Sentence(<<"flu", "needs", "rest">>, "")>> >>]

DocWell == [title |-> "Healthy Living", category |-> "wellness",
            content |-> << <<Sentence(<<"wellness", "needs", "rest">>, ".")>>,
                           <<Sentence(<<"fitness", "helps", "health">>, ".")>> >>]

(* a word of n letters *)
RECURSIVE Repeat(_, _)
Repeat(letter, n) ==
    IF n = 0 THEN ""
    ELSE IF n % 2 = 1 THEN letter \o Repeat(letter, n - 1)
    ELSE LET half == Repeat(letter, n \div 2) IN half \o half

Topics == <<"flu", "cold", "cough", "fever", "rash", "pain",
            "sleep", "diet", "water", "rest", "care", "note">>

(* twelve short paragraphs of one sentence each *)
ManyParagraphs == [i \in 1..Len(Topics) |-> <<Sentence(<<Topics[i], "helps">>, ".")>>]

(* one paragraph of three sentences of 300, 256 and 256 characters, and a
   paragraph made of one sentence of 600 characters *)
LongSentences ==
    << <<Sentence(<<Repeat("a", 149), Repeat("a", 150)>>, "."),
         Sentence(<<Repeat("b", 127), Repeat("b", 128)>>, "."),
         Sentence(<<Repeat("c", 127), Repeat("c", 128)>>, ".")>>,
       <<Sentence(<<Repeat("d", 299), Repeat("d", 300)>>, ".")>> >>

(* n sentences of 100 characters, the full stop included, in one paragraph *)
Lines(n) == << [i \in 1..n |-> Sentence(<<Repeat("x", 99)>>, ".")] >>

DocManyMedical == [title |-> "Conditions", category |-> "medical_condition",
                   content |-> ManyParagraphs]

DocManyGeneral == [title |-> "Habits", category |-> "general",
                   content |-> ManyParagraphs]

DocLongSymptom == [title |-> "Symptoms", category |-> "symptom",
                   content |-> LongSentences]

DocLongPrevention == [title |-> "Prevention", category |-> "prevention",
                      content |-> LongSentences]

DocLog == [title |-> "Log", category |-> "notes", content |-> Lines(6)]

DocLongLog == [title |-> "Long Log", category |-> "notes", content |-> Lines(42)]

DocBlank == [title |-> "Blank", category |-> "notes", content |-> << >>]

(* a document with the title and the first 100 characters of DocLog and a
   longer content *)
DocLogMore == [title |-> "Log", category |-> "notes", content |-> Lines(7)]

(* documents ingested more than once or under one id *)
IndexDocuments == {DocFlu, DocNote, DocLog, DocLogMore}

ChunkDocuments == {DocManyMedical, DocManyGeneral, DocLongSymptom,
                   DocLongPrevention, DocLog, DocLongLog, DocBlank}

DocumentInputs == {DocFlu, DocNote, DocWell}

QueryFlu == <<"flu", "treatment", "needs", "Rest">>

KnowledgeQueries == {QueryFlu, << >>}
SearchLimits == {0, 1, 5}
CategoryFilters == {None, "treatment"}

(* len(" ".join(tokens)) *)
RECURSIVE JoinLen(_)
JoinLen(tokens) ==
    IF tokens = << >> THEN 0
    ELSE IF Len(tokens) = 1 THEN Len(tokens[1])
    ELSE Len(Head(tokens)) + 1 + JoinLen(Tail(tokens))

(* the words of a sentence as they stand in the text: the terminal
   punctuation is part of the last token *)
SentenceTokens(sentence) ==
    [i \in 1..Len(sentence.words) |->
        IF i = Len(sentence.words) THEN sentence.words[i] \o sentence.end
        ELSE sentence.words[i]]

RECURSIVE ParagraphTokens(_)
ParagraphTokens(paragraph) ==
    IF paragraph = << >> THEN << >>
    ELSE SentenceTokens(Head(paragraph)) \o ParagraphTokens(Tail(paragraph))

(* the whole content; the empty token stands for the blank line between two
   paragraphs, so that the joined length counts its two characters *)
RECURSIVE ContentTokens(_)
ContentTokens(content) ==
    IF content = << >> THEN << >>
    ELSE IF Len(content) = 1 THEN ParagraphTokens(content[1])
    ELSE ParagraphTokens(Head(content)) \o <<"">> \o ContentTokens(Tail(content))

(* re.split(r'[.!?]+', paragraph), stripped, empty pieces dropped *)
SplitSentences(paragraph) ==
    LET pieces == [i \in 1..Len(paragraph) |-> paragraph[i].words]
    IN  SelectSeq(pieces, LAMBDA s : s # << >>)

(* the sentence loop shared by _chunk_medical_content and _split_long_paragraph;
   acc.current is current_chunk.strip(), acc.len is len(current_chunk) *)
RECURSIVE SentenceLoop(_, _, _, _, _)
SentenceLoop(sentences, acc, title, joined_type, single_type) ==
    IF sentences = << >> THEN acc
    ELSE LET sentence == Head(sentences)
             next ==
               IF acc.len + JoinLen(sentence) > chunk_size
               THEN IF acc.len > 0
                    THEN [chunks |-> Append(acc.chunks,
                                       [content |-> acc.current, title |-> title,
                                        chunk_type |-> joined_type,
                                        sentence_count |-> acc.count]),
                          current |-> sentence, len |-> JoinLen(sentence), count |-> 1]
                    ELSE [acc EXCEPT !.chunks = Append(@,
                                       [content |-> sentence, title |-> title,
                                        chunk_type |-> single_type,
                                        sentence_count |-> 1])]
               ELSE [acc EXCEPT !.current = @ \o sentence,
                                !.len = @ + 1 + JoinLen(sentence),
                                !.count = @ + 1]
         IN  SentenceLoop(Tail(sentences), next, title, joined_type, single_type)

(* one paragraph through the sentence loop, with the remaining chunk added *)
SentenceChunks(paragraph, title, joined_type, single_type) ==
    LET acc == SentenceLoop(SplitSentences(paragraph),
                            [chunks |-> << >>, current |-> << >>, len |-> 0, count |-> 0],
                            title, joined_type, single_type)
    IN  IF acc.len > 0
        THEN Append(acc.chunks, [content |-> acc.current, title |-> title,
                                 chunk_type |-> joined_type,
                                 sentence_count |-> acc.count])
        ELSE acc.chunks

(* _split_long_paragraph *)
split_long_paragraph(paragraph, title) ==
    SentenceChunks(paragraph, title, "split_paragraph", "long_sentence")

RECURSIVE chunk_medical_content(_, _)
(* _chunk_medical_content *)
chunk_medical_content(content, title) ==
    IF content = << >> THEN << >>
    ELSE (IF ParagraphTokens(Head(content)) = << >> THEN << >>
          ELSE SentenceChunks(Head(content), title, "medical_paragraph",
                              "medical_sentence"))
         \o chunk_medical_content(Tail(content), title)

RECURSIVE GeneralLoop(_, _, _)
GeneralLoop(content, para_idx, title) ==
    IF para_idx >= Len(content) THEN << >>
    ELSE LET paragraph == content[para_idx + 1]
             tokens == ParagraphTokens(paragraph)
         IN  (IF tokens = << >> THEN << >>
              ELSE IF JoinLen(tokens) > chunk_size
                   THEN split_long_paragraph(paragraph, title)
                   ELSE << [content |-> tokens, title |-> title,
                            chunk_type |-> "general_paragraph",
                            paragraph_index |-> para_idx] >>)
             \o GeneralLoop(content, para_idx + 1, title)

(* _chunk_general_content *)
chunk_general_content(content, title) == GeneralLoop(content, 0, title)

(* the offset of each token in " ".join(tokens), counted from 0 *)
RECURSIVE TokenStarts(_, _)
TokenStarts(tokens, at) ==
    IF tokens = << >> THEN << >>
    ELSE <<at>> \o TokenStarts(Tail(tokens), at + Len(Head(tokens)) + 1)

(* content[p]: a character of a token, or the white space between two tokens *)
CharAt(tokens, starts, p) ==
    LET inside == {i \in 1..Len(tokens) : starts[i] <= p /\ p < starts[i] + Len(tokens[i])}
    IN  IF inside = {} THEN " "
        ELSE LET i == CHOOSE j \in inside : TRUE
             IN  SubSeq(tokens[i], p - starts[i] + 1, p - starts[i] + 1)

(* content[start:end].strip(), as tokens: the tokens the slice cuts are kept
   in part, the white space at both ends is dropped *)
SliceTokens(tokens, starts, start, end) ==
    LET pieces == [i \in 1..Len(tokens) |->
                     LET lo == IF starts[i] > start THEN starts[i] ELSE start
                         hi == Min(starts[i] + Len(tokens[i]), end)
                     IN  IF lo < hi
                         THEN SubSeq(tokens[i], lo - starts[i] + 1, hi - starts[i])
                         ELSE ""]
        solid == {i \in 1..Len(pieces) : pieces[i] # ""}
    IN  IF solid = {} THEN << >>
        ELSE SubSeq(pieces,
                    CHOOSE i \in solid : \A j \in solid : i <= j,
                    CHOOSE i \in solid : \A j \in solid : j <= i)

(* the right edge of the window that starts at start: start + size, pulled
   back to just after the last terminal punctuation found by the scan
   range(end, max(start, end - 100), -1) when the edge is inside the content *)
WindowEnd(tokens, starts, start, size) ==
    LET end == start + size
        floor == IF start > end - 100 THEN start ELSE end - 100
        found == {i \in (floor + 1)..end : CharAt(tokens, starts, i) \in {".", "!", "?"}}
    IN  IF end < JoinLen(tokens) /\ found # {}
        THEN (CHOOSE i \in found : \A j \in found : j <= i) + 1
        ELSE end

(* a faulty step: the next window starts one character too early *)
NextStartFurtherBack(end, overlap) == end - overlap - 1

(* start = end - self.chunk_overlap *)
NextStart(end, overlap) == end - overlap

(* the while loop of _chunk_fixed_size *)
RECURSIVE FixedLoop(_, _, _, _, _, _)
FixedLoop(tokens, starts, start, size, overlap, title) ==
    IF start >= JoinLen(tokens) THEN << >>
    ELSE LET end == WindowEnd(tokens, starts, start, size)
             chunk_content == SliceTokens(tokens, starts, start, end)
             emitted == IF chunk_content = << >> THEN << >>
                        ELSE << [content |-> chunk_content, title |-> title,
                                 chunk_type |-> "fixed_size",
                                 start_pos |-> start, end_pos |-> end] >>
         IN  emitted \o FixedLoop(tokens, starts, NextStart(end, overlap),
                                  size, overlap, title)

(* _chunk_fixed_size *)
chunk_fixed_size(content, title) ==
    LET tokens == ContentTokens(content)
    IN  FixedLoop(tokens, TokenStarts(tokens, 0), 0, chunk_size, chunk_overlap, title)

(* the dispatch of _chunk_document on the category *)
StrategyChunks(document) ==
    IF document.category \in {"medical_condition", "treatment", "symptom"}
    THEN chunk_medical_content(document.content, document.title)
    ELSE IF document.category \in {"general", "wellness", "prevention"}
    THEN chunk_general_content(document.content, document.title)
    ELSE chunk_fixed_size(document.content, document.title)

(* a faulty chunker: every chunk the strategy produced is kept *)
chunk_document_untruncated(document) == StrategyChunks(document)

(* _chunk_document *)
chunk_document(document) == Take(StrategyChunks(document), max_chunks_per_document)

(***************************************************************************)
(* Embeddings.  A vector is the function from its non-zero positions to   *)
(* their weights; a normalised vector v / |v| is represented by the       *)
(* primitive integer vector of its direction (v divided by the gcd of its *)
(* weights), the zero vector by the empty function.                        *)
(***************************************************************************)
HashSeeds == {0, 1}

Vocabulary == <<"flu", "treatment", "needs", "rest", "rest.", "wellness",
                "fitness", "helps", "health", "health.", "care", "note">>

(* a number for each word: its place in the vocabulary, and for any other
   word one that its length gives *)
WordCode(word) ==
    IF \E i \in 1..Len(Vocabulary) : Vocabulary[i] = word
    THEN CHOOSE i \in 1..Len(Vocabulary) : Vocabulary[i] = word
    ELSE Len(Vocabulary) + Len(word)

(* the builtin hash(word) of a str: a value fixed within one interpreter
   process and keyed by the per-process hash seed *)
PyHash(seed, word) ==
    ((WordCode(word) + 7 * seed) * (2 * seed + 101) * 7919) % 65536

RECURSIVE SumOver(_, _)
SumOver(S, f) ==
    IF S = {} THEN 0
    ELSE LET x == CHOOSE y \in S : TRUE IN f[x] + SumOver(S \ {x}, f)

(* vector / np.linalg.norm(vector) when the norm is positive *)
Normalize(vector) ==
    IF DOMAIN vector = {} THEN vector
    ELSE LET top == SumOver(DOMAIN vector, vector)
             g == CHOOSE d \in 1..top :
                    /\ \A p \in DOMAIN vector : vector[p] % d = 0
                    /\ \A e \in (d + 1)..top :
                          \E p \in DOMAIN vector : vector[p] % e # 0
         IN  [p \in DOMAIN vector |-> vector[p] \div g]

(* word_freq of _simple_embedding *)
WordFreq(text) ==
    LET words == LowerSplit(text)
        kept == {w \in Range(words) : Len(w) > 2}
    IN  [w \in kept |-> Cardinality({i \in 1..Len(words) : words[i] = w})]

(* _simple_embedding *)
simple_embedding(text, seed, dimension) ==
    LET word_freq == WordFreq(text)
        positions == {PyHash(seed, w) % dimension : w \in DOMAIN word_freq}
        vector == [p \in positions |->
                     SumOver({w \in DOMAIN word_freq : PyHash(seed, w) % dimension = p},
                             word_freq)]
    IN  Normalize(vector)

(* embedding_model.encode(text) of the external sentence-transformers model:
   some fixed function of the text, the same in every process *)
learned_embedding(text) ==
    LET words == LowerSplit(text)
    IN  Normalize([p \in {WordCode(w) : w \in Range(words)} |->
                     Cardinality({i \in 1..Len(words) : WordCode(words[i]) = p})])

(* the branch on self.embedding_model in _generate_chunk_embeddings and
   search_knowledge *)
Embed(text, model, seed, dimension) ==
    IF model # None THEN learned_embedding(text)
    ELSE simple_embedding(text, seed, dimension)

Dot(a, b) ==
    LET common == DOMAIN a \cap DOMAIN b
    IN  SumOver(common, [p \in common |-> a[p] * b[p]])

(* _cosine_similarity, in ScoreUnit, to a hundredth *)
cosine_similarity(vec1, vec2) ==
    LET dot_product == Dot(vec1, vec2)
        norms == Dot(vec1, vec1) * Dot(vec2, vec2)
    IN  IF norms = 0 THEN 0
        ELSE (ScoreUnit \div 100) *
             (CHOOSE c \in 0..100 :
                 /\ c * c * norms <= 10000 * dot_product * dot_product
                 /\ (c = 100 \/ (c + 1) * (c + 1) * norms > 10000 * dot_product * dot_product))

(* _keyword_similarity *)
keyword_similarity(query, content) ==
    LET query_words == Range(LowerSplit(query)) \ stop_words
        content_words == Range(LowerSplit(content)) \ stop_words
    IN  IF query_words = {} \/ content_words = {} THEN 0
        ELSE (ScoreUnit * Cardinality(query_words \cap content_words))
             \div Cardinality(query_words \cup content_words)

(* dict.get(key, default) *)
DictGet(d, key, default) == IF key \in DOMAIN d THEN d[key] ELSE default

category_terms ==
    [medical_condition |-> <<"condition", "disease", "illness", "symptom">>,
     treatment |-> <<"treatment", "therapy", "medication", "cure">>,
     prevention |-> <<"prevention", "prevent", "avoid", "protection">>,
     wellness |-> <<"wellness", "health", "fitness", "lifestyle">>]

(* the category terms that are substrings of a token of the vocabulary,
   other than the token itself *)
ProperSubstrings == ("health." :> {"health"}) @@ ("prevention" :> {"prevent"})

(* term in query_lower *)
TermInQuery(term, query) ==
    \E i \in 1..Len(LowerSplit(query)) :
        LET token == LowerSplit(query)[i]
        IN  \/ token = term
            \/ (token \in DOMAIN ProperSubstrings /\ term \in ProperSubstrings[token])

(* _category_similarity *)
category_similarity(query, chunk) ==
    LET chunk_category == Lower(DictGet(chunk, "category", ""))
    IN  IF chunk_category \in DOMAIN category_terms
        THEN LET relevant_terms == category_terms[chunk_category]
                 matches == Cardinality({i \in 1..Len(relevant_terms) :
                                TermInQuery(relevant_terms[i], query)})
             IN  Min(ScoreUnit, (ScoreUnit * matches) \div Len(relevant_terms))
        ELSE 0

(* the combined score of search_knowledge, category filter applied *)
combined_similarity(semantic_sim, keyword_sim, category_sim, chunk, category_filter) ==
    LET combined_sim == (semantic_sim * similarity_weights.semantic
                         + keyword_sim * similarity_weights.keyword
                         + category_sim * similarity_weights.category) \div 10
    IN  IF Truthy(category_filter) /\ DictGet(chunk, "category", None) # category_filter
        THEN combined_sim \div 2
        ELSE combined_sim

(* one entry of the similarities list of search_knowledge *)
ScoreChunk(query, query_embedding, chunk, chunk_embedding, category_filter) ==
    LET semantic_sim == cosine_similarity(query_embedding, chunk_embedding)
        keyword_sim == keyword_similarity(query, chunk.content)
        category_sim == category_similarity(query, chunk)
    IN  [chunk |-> chunk,
         similarity_score |-> combined_similarity(semantic_sim, keyword_sim,
                                                  category_sim, chunk, category_filter),
         semantic_similarity |-> semantic_sim,
         keyword_similarity |-> keyword_sim,
         category_similarity |-> category_sim]

(* the threshold filter of search_knowledge *)
IsRelevant(result) == result.similarity_score >= kb_relevance_threshold

(* the formatted result of search_knowledge *)
FormatResult(result) ==
    [content |-> result.chunk.content,
     title |-> result.chunk.title,
     category |-> DictGet(result.chunk, "category", "general"),
     chunk_type |-> DictGet(result.chunk, "chunk_type", "unknown"),
     relevance_score |-> result.similarity_score,
     semantic_score |-> result.semantic_similarity,
     keyword_score |-> result.keyword_similarity,
     category_score |-> result.category_similarity,
     document_id |-> DictGet(result.chunk, "document_id", None),
     chunk_id |-> result.chunk.id]

(* a faulty ranking: the similarities are left in index order *)
RankUnsorted(similarities) == similarities

(* similarities.sort(key=similarity_score, reverse=True) *)
RankResults(similarities) ==
    Values(SortDesc([i \in 1..Len(similarities) |->
                        [k |-> <<similarities[i].similarity_score>>,
                         v |-> similarities[i]]]))

(* search_knowledge *)
search_knowledge(chunk_list, embedding_map, query, limit, category_filter, model, seed, dimension) ==
    LET query_embedding == Embed(query, model, seed, dimension)
        with_embedding == SelectSeq(chunk_list, LAMBDA c : c.id \in DOMAIN embedding_map)
        similarities == [i \in 1..Len(with_embedding) |->
                           ScoreChunk(query, query_embedding, with_embedding[i],
                                      embedding_map[with_embedding[i].id],
                                      category_filter)]
        relevant_results == SelectSeq(RankResults(similarities), IsRelevant)
        top == Take(relevant_results, limit)
    IN  [i \in 1..Len(top) |-> FormatResult(top[i])]

(* _generate_document_id: md5 of "title:content[:100]"; the digest is
   represented by the text it is computed from *)
generate_document_id(title, content) ==
    <<title, CharPrefix(ContentTokens(content), 100)>>

(***************************************************************************)
(* State                                                                   *)
(***************************************************************************)
VARIABLES
    session_memories,       \* AdvancedMemoryManager.session_memories
    long_term_memories,     \* AdvancedMemoryManager.long_term_memories
    user_profiles,          \* AdvancedMemoryManager.user_profiles
    conversation_contexts,  \* AdvancedMemoryManager.conversation_contexts
    memory_disk,            \* long_term_memories.pkl and user_profiles.pkl
    export_file,            \* the file export_memories writes and import_memories reads
    now,                    \* datetime.now(), in days
    turns,                  \* add_session_memory calls completed so far
    backend,                \* sentence_transformers: "missing", "broken" or "ok"
    python_hash_seed,       \* the hash seed of the running interpreter
    kb_import,              \* import of advanced_knowledge_base: "ok" or "NameError"
    EMBEDDING_MODEL_AVAILABLE,
    embedding_model,        \* AdvancedKnowledgeBase.embedding_model
    embedding_dimension,    \* AdvancedKnowledgeBase.embedding_dimension
    documents,              \* AdvancedKnowledgeBase.documents
    chunks,                 \* AdvancedKnowledgeBase.chunks
    embeddings,             \* AdvancedKnowledgeBase.embeddings
    metadata,               \* AdvancedKnowledgeBase.metadata
    knowledge_disk,         \* documents.pkl, chunks.pkl, embeddings.pkl, metadata.pkl
    evaluation_metrics,     \* AdvancedRAGSystem.evaluation_metrics
    fixed_window,           \* the frame of a running _chunk_fixed_size, or NoWindow
    last                    \* the last call: operation, arguments, outcome

memory_vars == <<session_memories, long_term_memories, user_profiles,
                 conversation_contexts, memory_disk, export_file, turns>>

knowledge_vars == <<backend, python_hash_seed, kb_import, EMBEDDING_MODEL_AVAILABLE,
                    embedding_model, embedding_dimension, documents, chunks,
                    embeddings, metadata, knowledge_disk>>

vars == <<memory_vars, knowledge_vars, evaluation_metrics, fixed_window, now, last>>

NoWindow == << >>

Call(op, args, ret, raised) == [op |-> op, args |-> args, ret |-> ret, raised |-> raised]

Backends == {"missing", "broken", "ok"}

(***************************************************************************)
(* AdvancedMemoryManager: construction                                     *)
(***************************************************************************)
(* _load_memories *)
load_memories(disk) ==
    [long_term_memories |-> IF disk.long_term_memories.exists
                            THEN disk.long_term_memories.data ELSE << >>,
     user_profiles |-> IF disk.user_profiles.exists
                       THEN disk.user_profiles.data ELSE << >>]

(* a faulty save: user_profiles.pkl is not written *)
save_long_term_only(memories, profiles) ==
    [long_term_memories |-> [exists |-> TRUE, data |-> memories],
     user_profiles |-> [exists |-> FALSE, data |-> << >>]]

(* _save_memories: pickle.dump of both collections *)
save_memories(memories, profiles) ==
    [long_term_memories |-> [exists |-> TRUE, data |-> memories],
     user_profiles |-> [exists |-> TRUE, data |-> profiles]]

(* AdvancedMemoryManager.__init__ *)
MemoryManagerInit(disk) ==
    /\ session_memories = << >>
    /\ conversation_contexts = << >>
    /\ long_term_memories = load_memories(disk).long_term_memories
    /\ user_profiles = load_memories(disk).user_profiles

EmptyMemoryDisk ==
    [long_term_memories |-> [exists |-> FALSE, data |-> << >>],
     user_profiles |-> [exists |-> FALSE, data |-> << >>]]

NoExportFile == [exists |-> FALSE, data |-> << >>]

InitMemory ==
    /\ memory_disk = EmptyMemoryDisk
    /\ export_file = NoExportFile
    /\ MemoryManagerInit(EmptyMemoryDisk)
    /\ turns = 0

(***************************************************************************)
(* AdvancedMemoryManager: operations                                       *)
(***************************************************************************)
(* the stores after the body of add_session_memory has run on stores at time
   t: the entry appended, context and profile updated, the entry promoted,
   the sweep and its save *)
TurnOutcome(stores, session_id, user_id, user_message, t) ==
    LET memory_entry == MemoryEntry(session_id, user_id, user_message, "response", t)
        appended == [s \in DOMAIN stores.session_memories \cup {session_id} |->
                       IF s = session_id
                       THEN Append(DictGet(stores.session_memories, s, << >>),
                                   memory_entry)
                       ELSE stores.session_memories[s]]
        profiles == IF Truthy(user_id)
                    THEN update_user_profile(stores.user_profiles, user_id, memory_entry)
                    ELSE stores.user_profiles
        promoted == IF should_promote_to_long_term(memory_entry)
                    THEN Append(stores.long_term_memories,
                                LongTermEntry(memory_entry, t))
                    ELSE stores.long_term_memories
    IN  [session_memories |-> CleanupSessions(appended, t),
         conversation_contexts |->
             update_conversation_context(stores.conversation_contexts, session_id,
                                         memory_entry),
         user_profiles |-> profiles,
         long_term_memories |-> KeepFresh(promoted, t),
         memory_disk |-> save_memories(KeepFresh(promoted, t), profiles)]

(* add_session_memory *)
AddTurn(session_id, user_id, user_message) ==
    /\ turns < MaxTurns
    /\ IF RelevanceRaises(user_message)
       THEN /\ last' = Call("add_session_memory",
                            [session_id |-> session_id, user_id |-> user_id,
                             user_message |-> user_message],
                            "ZeroDivisionError", TRUE)
            /\ UNCHANGED <<memory_vars, knowledge_vars, evaluation_metrics, fixed_window, now>>
       ELSE \E after \in {TurnOutcome([session_memories |-> session_memories,
                                        conversation_contexts |-> conversation_contexts,
                                        user_profiles |-> user_profiles,
                                        long_term_memories |-> long_term_memories],
                                       session_id, user_id, user_message, now)} :
                /\ session_memories' = after.session_memories
                /\ conversation_contexts' = after.conversation_contexts
                /\ user_profiles' = after.user_profiles
                /\ long_term_memories' = after.long_term_memories
                /\ memory_disk' = after.memory_disk
                /\ turns' = turns + 1
                /\ last' = Call("add_session_memory",
                                [session_id |-> session_id, user_id |-> user_id,
                                 user_message |-> user_message],
                                None, FALSE)
                /\ UNCHANGED <<export_file, knowledge_vars, evaluation_metrics, fixed_window, now>>

(* get_relevant_long_term_memories *)
GetRelevantLongTermMemories(query, user_id, limit) ==
    /\ last' = IF RelevanceRaises(query)
               THEN Call("get_relevant_long_term_memories",
                         [query |-> query, user_id |-> user_id, limit |-> limit],
                         "ZeroDivisionError", TRUE)
               ELSE Call("get_relevant_long_term_memories",
                         [query |-> query, user_id |-> user_id, limit |-> limit],
                         relevant_long_term_memories(long_term_memories, query,
                                                     user_id, limit),
                         FALSE)
    /\ UNCHANGED <<memory_vars, knowledge_vars, evaluation_metrics, fixed_window, now>>

(* get_user_profile *)
GetUserProfile(user_id) ==
    /\ IF user_id \notin DOMAIN user_profiles
       THEN /\ last' = Call("get_user_profile", [user_id |-> user_id],
                            create_default_profile(now), FALSE)
            /\ UNCHANGED user_profiles
       ELSE /\ user_profiles' = [user_profiles EXCEPT
                                    ![user_id] = DerivedProfile(@)]
            /\ last' = Call("get_user_profile", [user_id |-> user_id],
                            user_profiles'[user_id], FALSE)
    /\ UNCHANGED <<session_memories, long_term_memories, conversation_contexts,
                   memory_disk, export_file, turns, knowledge_vars, evaluation_metrics, fixed_window, now>>

(* clear_user_data *)
ClearUserData(user_id) ==
    /\ user_profiles' = [u \in DOMAIN user_profiles \ {user_id} |-> user_profiles[u]]
    /\ long_term_memories' = NotOwnedBy(long_term_memories, user_id)
    /\ session_memories' = ClearSessions(session_memories, user_id)
    /\ memory_disk' = save_memories(long_term_memories', user_profiles')
    /\ last' = Call("clear_user_data", [user_id |-> user_id], None, FALSE)
    /\ UNCHANGED <<conversation_contexts, export_file, turns, knowledge_vars, evaluation_metrics, fixed_window, now>>

(* the keyword counts of get_conversation_summary, in order of first
   occurrence: topics[keyword] += 1 over the entries of the session *)
RECURSIVE CountTopics(_, _)
CountTopics(memories, topics) ==
    IF memories = << >> THEN topics
    ELSE CountTopics(Tail(memories), BumpInterests(topics, Head(memories).keywords))

(* sum(1 if positive, -1 if negative, else 0) / len(sentiments), in ScoreUnit *)
average_sentiment(memories) ==
    IF memories = << >> THEN 0
    ELSE LET positive == Cardinality({i \in 1..Len(memories) :
                                         memories[i].sentiment = "positive"})
             negative == Cardinality({i \in 1..Len(memories) :
                                         memories[i].sentiment = "negative"})
         IN  IF positive >= negative
             THEN (ScoreUnit * (positive - negative)) \div Len(memories)
             ELSE 0 - ((ScoreUnit * (negative - positive)) \div Len(memories))

(* _calculate_duration: whole minutes between the first and the last entry *)
calculate_duration(memories) ==
    IF Len(memories) < 2 THEN 0
    ELSE (memories[Len(memories)].timestamp - memories[1].timestamp) * 24 * 60

(* the sorted(...)[:limit] of get_session_context *)
session_context(memories, limit) ==
    Take(Values(SortDesc([i \in 1..Len(memories) |->
                            [k |-> <<memories[i].relevance_score, memories[i].timestamp>>,
                             v |-> memories[i]]])),
         limit)

(* get_session_context; the optional limit is << >> when omitted and <<n>>
   when supplied, and "limit or self.max_context_window" takes the default
   for both None and 0 *)
GetSessionContext(session_id, limit) ==
    /\ last' = Call("get_session_context",
                    [session_id |-> session_id, limit |-> limit],
                    IF session_id \notin DOMAIN session_memories THEN << >>
                    ELSE session_context(session_memories[session_id],
                                         IF limit = << >> \/ limit = <<0>>
                                         THEN max_context_window ELSE limit[1]),
                    FALSE)
    /\ UNCHANGED <<memory_vars, knowledge_vars, evaluation_metrics, fixed_window, now>>

(* get_conversation_summary *)
GetConversationSummary(session_id) ==
    /\ last' = Call("get_conversation_summary", [session_id |-> session_id],
                    IF session_id \notin DOMAIN session_memories THEN << >>
                    ELSE LET memories == session_memories[session_id]
                             topics == CountTopics(memories, << >>)
                         IN  [session_id |-> session_id,
                              total_turns |-> Len(memories),
                              main_topics |->
                                 Take(Values(SortDesc([i \in 1..Len(topics) |->
                                                         [k |-> <<topics[i][2]>>,
                                                          v |-> topics[i]]])), 5),
                              average_sentiment |-> average_sentiment(memories),
                              unique_keywords |-> Len(topics),
                              conversation_duration |-> calculate_duration(memories),
                              last_updated |-> now],
                    FALSE)
    /\ UNCHANGED <<memory_vars, knowledge_vars, evaluation_metrics, fixed_window, now>>

(* export_memories: the three stores and the time, written as JSON; every
   value in them is a str, a number, a bool, a list or a dict with str keys,
   which json.dump and json.load give back unchanged *)
ExportMemories ==
    /\ export_file' = [exists |-> TRUE,
                       data |-> [session_memories |-> session_memories,
                                 long_term_memories |-> long_term_memories,
                                 user_profiles |-> user_profiles,
                                 export_timestamp |-> now]]
    /\ last' = Call("export_memories", << >>, None, FALSE)
    /\ UNCHANGED <<session_memories, long_term_memories, user_profiles,
                   conversation_contexts, memory_disk, turns, knowledge_vars, evaluation_metrics, fixed_window, now>>

(* dict.update(other) *)
DictUpdate(d, other) ==
    [k \in DOMAIN d \cup DOMAIN other |-> IF k \in DOMAIN other THEN other[k] ELSE d[k]]

(* the import is taken while the long-term list stays within MaxLongTerm *)
ImportFits ==
    export_file.exists =>
        Len(long_term_memories) + Len(export_file.data.long_term_memories) <= MaxLongTerm

(* import_memories: open() raises when the file does not exist *)
ImportMemories ==
    /\ ImportFits
    /\ IF ~export_file.exists
       THEN /\ last' = Call("import_memories", << >>, "FileNotFoundError", TRUE)
            /\ UNCHANGED <<session_memories, long_term_memories, user_profiles,
                           memory_disk>>
       ELSE /\ session_memories' =
                  DictUpdate(session_memories, export_file.data.session_memories)
            /\ long_term_memories' =
                  long_term_memories \o export_file.data.long_term_memories
            /\ user_profiles' = DictUpdate(user_profiles, export_file.data.user_profiles)
            /\ memory_disk' = save_memories(long_term_memories', user_profiles')
            /\ last' = Call("import_memories", << >>, None, FALSE)
    /\ UNCHANGED <<conversation_contexts, export_file, turns, knowledge_vars, evaluation_metrics, fixed_window, now>>

(* a new process constructs the manager on the same memory_db_path *)
RestartMemory ==
    /\ session_memories' = << >>
    /\ conversation_contexts' = << >>
    /\ long_term_memories' = load_memories(memory_disk).long_term_memories
    /\ user_profiles' = load_memories(memory_disk).user_profiles
    /\ last' = Call("AdvancedMemoryManager", << >>, None, FALSE)
    /\ UNCHANGED <<memory_disk, export_file, turns, knowledge_vars, evaluation_metrics, fixed_window, now>>

(* time passes between two calls *)
Tick ==
    /\ now + TickDays <= MaxClock
    /\ now' = now + TickDays
    /\ last' = Call("tick", << >>, None, FALSE)
    /\ UNCHANGED <<memory_vars, knowledge_vars, evaluation_metrics, fixed_window>>

(***************************************************************************)
(* AdvancedKnowledgeBase: module import and construction                   *)
(***************************************************************************)
(* the try/except around "from sentence_transformers import ..." at module
   level: an ImportError is caught, and the handler then calls logger.warning
   before logger is bound, which raises NameError out of the import *)
ImportOutcome(b) == IF b = "missing" THEN "NameError" ELSE "ok"

(* _initialize_embedding_model *)
initialize_embedding_model(available, b) ==
    IF available /\ b = "ok" THEN "all-MiniLM-L6-v2" ELSE None

EmptyKnowledge ==
    [documents |-> << >>, chunks |-> << >>, embeddings |-> << >>, metadata |-> << >>]

NoKnowledgeFiles == [exists |-> FALSE, data |-> EmptyKnowledge]

(* _load_knowledge *)
load_knowledge(disk) == IF disk.exists THEN disk.data ELSE EmptyKnowledge

(* a process starts with sentence_transformers in state b and hash seed seed:
   the module is imported and AdvancedKnowledgeBase.__init__ runs on disk *)
KnowledgeBaseInit(b, seed, disk) ==
    /\ backend = b
    /\ python_hash_seed = seed
    /\ kb_import = ImportOutcome(b)
    /\ EMBEDDING_MODEL_AVAILABLE = (b # "missing")
    /\ embedding_model = IF ImportOutcome(b) = "ok"
                         THEN initialize_embedding_model(b # "missing", b) ELSE None
    /\ embedding_dimension = default_embedding_dimension
    /\ documents = IF ImportOutcome(b) = "ok" THEN load_knowledge(disk).documents ELSE << >>
    /\ chunks = IF ImportOutcome(b) = "ok" THEN load_knowledge(disk).chunks ELSE << >>
    /\ embeddings = IF ImportOutcome(b) = "ok" THEN load_knowledge(disk).embeddings ELSE << >>
    /\ metadata = IF ImportOutcome(b) = "ok" THEN load_knowledge(disk).metadata ELSE << >>

InitKnowledge ==
    /\ knowledge_disk = NoKnowledgeFiles
    /\ \E b \in Backends, seed \in HashSeeds : KnowledgeBaseInit(b, seed, NoKnowledgeFiles)

(***************************************************************************)
(* AdvancedKnowledgeBase: operations                                       *)
(***************************************************************************)
(* the document dict literal of add_document *)
Document(doc, t) ==
    [id |-> generate_document_id(doc.title, doc.content),
     title |-> doc.title,
     content |-> doc.content,
     category |-> doc.category,
     source |-> "manual",
     tags |-> << >>,
     added_at |-> t,
     word_count |-> Len(LowerSplit(ContentTokens(doc.content))),
     char_count |-> JoinLen(ContentTokens(doc.content))]

(* a faulty ingest: the chunk is filed under another document's id *)
StoredChunkMisfiled(chunk, document_id, i) ==
    [k \in DOMAIN chunk \cup {"id", "document_id", "chunk_index"} |->
        IF k = "id" THEN <<document_id, "chunk", i>>
        ELSE IF k = "document_id" THEN <<"", << >>>>
        ELSE IF k = "chunk_index" THEN i
        ELSE chunk[k]]

(* the three keys add_document sets on chunk i *)
StoredChunk(chunk, document_id, i) ==
    [k \in DOMAIN chunk \cup {"id", "document_id", "chunk_index"} |->
        IF k = "id" THEN <<document_id, "chunk", i>>
        ELSE IF k = "document_id" THEN document_id
        ELSE IF k = "chunk_index" THEN i
        ELSE chunk[k]]

(* add_document *)
AddDocument(doc) ==
    /\ kb_import = "ok"
    /\ Len(documents) < MaxDocs
    /\ \E document \in {Document(doc, now)} :
       \E new_chunks \in {chunk_document(document)} :
       \E stored \in {[i \in 1..Len(new_chunks) |->
                          StoredChunk(new_chunks[i], document.id, i - 1)]} :
       LET new_ids == {stored[i].id : i \in 1..Len(stored)}
       IN  /\ documents' = Append(documents, document)
           /\ chunks' = chunks \o stored
           /\ embeddings' =
                [id \in DOMAIN embeddings \cup new_ids |->
                    IF id \in new_ids
                    THEN LET i == CHOOSE j \in 1..Len(stored) : stored[j].id = id
                         IN  Embed(stored[i].content, embedding_model,
                                   python_hash_seed, embedding_dimension)
                    ELSE embeddings[id]]
           /\ metadata' =
                [d \in DOMAIN metadata \cup {document.id} |->
                    IF d = document.id
                    THEN [num_chunks |-> Len(new_chunks),
                          categories |-> <<doc.category>>,
                          tags |-> << >>,
                          processing_timestamp |-> now]
                    ELSE metadata[d]]
           /\ knowledge_disk' =
                [exists |-> TRUE,
                 data |-> [documents |-> documents', chunks |-> chunks',
                           embeddings |-> embeddings', metadata |-> metadata']]
           /\ last' = Call("add_document", doc, document.id, FALSE)
    /\ UNCHANGED <<memory_vars, backend, python_hash_seed, kb_import,
                   EMBEDDING_MODEL_AVAILABLE, embedding_model, embedding_dimension, evaluation_metrics, fixed_window, now>>

(* search_knowledge *)
SearchKnowledge(query, limit, category_filter) ==
    /\ kb_import = "ok"
    /\ last' = Call("search_knowledge",
                    [query |-> query, limit |-> limit,
                     category_filter |-> category_filter],
                    search_knowledge(chunks, embeddings, query, limit, category_filter,
                                     embedding_model, python_hash_seed,
                                     embedding_dimension),
                    FALSE)
    /\ UNCHANGED <<memory_vars, knowledge_vars, evaluation_metrics, fixed_window, now>>

(* sum(len(chunk['content']) for chunk in chunks) *)
RECURSIVE TotalLength(_)
TotalLength(produced) ==
    IF produced = << >> THEN 0
    ELSE JoinLen(Head(produced).content) + TotalLength(Tail(produced))

(* chunk.get(key, 'unknown') *)
ChunkGet(chunk, key) == IF key \in DOMAIN chunk THEN chunk[key] ELSE "unknown"

(* the defaultdict(int) counts of get_knowledge_stats over one key *)
CountBy(stored, key) ==
    [v \in {ChunkGet(stored[i], key) : i \in 1..Len(stored)} |->
        Cardinality({i \in 1..Len(stored) : ChunkGet(stored[i], key) = v})]

(* round(sum of len(content) / total_chunks, 2), in hundredths *)
average_chunk_size(stored) ==
    IF Len(stored) = 0 THEN 0
    ELSE (200 * TotalLength(stored) + Len(stored)) \div (2 * Len(stored))

(* get_knowledge_stats *)
GetKnowledgeStats ==
    /\ kb_import = "ok"
    /\ last' = Call("get_knowledge_stats", << >>,
                    [total_documents |-> Len(documents),
                     total_chunks |-> Len(chunks),
                     categories |-> CountBy(chunks, "category"),
                     chunk_types |-> CountBy(chunks, "chunk_type"),
                     average_chunk_size |-> average_chunk_size(chunks),
                     embedding_dimension |-> embedding_dimension,
                     embedding_model_available |-> embedding_model # None,
                     relevance_threshold |-> kb_relevance_threshold,
                     last_updated |-> now],
                    FALSE)
    /\ UNCHANGED <<memory_vars, knowledge_vars, evaluation_metrics, fixed_window, now>>

(* clear_knowledge *)
ClearKnowledge ==
    /\ kb_import = "ok"
    /\ documents' = << >>
    /\ chunks' = << >>
    /\ embeddings' = << >>
    /\ metadata' = << >>
    /\ knowledge_disk' = NoKnowledgeFiles
    /\ last' = Call("clear_knowledge", << >>, None, FALSE)
    /\ UNCHANGED <<memory_vars, backend, python_hash_seed, kb_import,
                   EMBEDDING_MODEL_AVAILABLE, embedding_model, embedding_dimension, evaluation_metrics, fixed_window, now>>

(* a new process imports the module and constructs the knowledge base on the
   same knowledge_db_path *)
RestartKnowledge(b, seed) ==
    /\ backend' = b
    /\ python_hash_seed' = seed
    /\ kb_import' = ImportOutcome(b)
    /\ EMBEDDING_MODEL_AVAILABLE' = (b # "missing")
    /\ embedding_model' = IF ImportOutcome(b) = "ok"
                          THEN initialize_embedding_model(b # "missing", b) ELSE None
    /\ embedding_dimension' = default_embedding_dimension
    /\ documents' = IF ImportOutcome(b) = "ok"
                    THEN load_knowledge(knowledge_disk).documents ELSE << >>
    /\ chunks' = IF ImportOutcome(b) = "ok"
                 THEN load_knowledge(knowledge_disk).chunks ELSE << >>
    /\ embeddings' = IF ImportOutcome(b) = "ok"
                     THEN load_knowledge(knowledge_disk).embeddings ELSE << >>
    /\ metadata' = IF ImportOutcome(b) = "ok"
                   THEN load_knowledge(knowledge_disk).metadata ELSE << >>
    /\ last' = Call("AdvancedKnowledgeBase", [backend |-> b, seed |-> seed],
                    ImportOutcome(b), ImportOutcome(b) # "ok")
    /\ UNCHANGED <<memory_vars, knowledge_disk, evaluation_metrics, fixed_window, now>>

(***************************************************************************)
(* AdvancedRAGSystem: the Context Assembler                                *)
(***************************************************************************)
(* _get_category_terms *)
rag_category_terms ==
    [medical_condition |-> <<"condition", "disease", "illness", "symptom", "diagnosis">>,
     treatment |-> <<"treatment", "therapy", "medication", "cure", "remedy">>,
     prevention |-> <<"prevention", "prevent", "avoid", "protection", "screening">>,
     wellness |-> <<"wellness", "health", "fitness", "lifestyle", "nutrition">>]

(* the most passes one retrieval runs *)
MaxPasses == 1 + 4

(* the categories list of _retrieve_knowledge *)
rag_categories == <<"medical_condition", "treatment", "prevention", "wellness">>

(* the search passes of _retrieve_knowledge in the order they run: the direct
   one, then one for each category with a term in the query *)
retrieval_passes(query) ==
    <<[category_filter |-> None, limit |-> 3]>>
    \o [i \in 1..Len(SelectSeq(rag_categories, LAMBDA c :
                        \E t \in Range(rag_category_terms[c]) : TermInQuery(t, query))) |->
          [category_filter |->
              SelectSeq(rag_categories, LAMBDA c :
                 \E t \in Range(rag_category_terms[c]) : TermInQuery(t, query))[i],
           limit |-> 2]]

RECURSIVE Concat(_)
(* results.extend(...) over the passes *)
Concat(lists) == IF lists = << >> THEN << >> ELSE Head(lists) \o Concat(Tail(lists))

(* a faulty deduplication: every result is kept *)
keep_all_results(results) == results

(* the loop of _deduplicate_results; hash(content) is represented by the
   content, equal contents having equal hashes *)
RECURSIVE DeduplicateLoop(_, _, _)
DeduplicateLoop(results, seen_contents, unique_results) ==
    IF results = << >> THEN unique_results
    ELSE IF Head(results).content \in seen_contents
    THEN DeduplicateLoop(Tail(results), seen_contents, unique_results)
    ELSE DeduplicateLoop(Tail(results), seen_contents \cup {Head(results).content},
                         Append(unique_results, Head(results)))

(* _deduplicate_results *)
deduplicate_results(results) == DeduplicateLoop(results, {}, << >>)

(* the body of the try block of _retrieve_knowledge *)
retrieve_knowledge(chunk_list, embedding_map, query, model, seed, dimension) ==
    LET passes == retrieval_passes(query)
        results == Concat([i \in 1..Len(passes) |->
                             search_knowledge(chunk_list, embedding_map, query,
                                              passes[i].limit, passes[i].category_filter,
                                              model, seed, dimension)])
        unique_results == deduplicate_results(results)
        sorted_results ==
            Values(SortDesc([i \in 1..Len(unique_results) |->
                               [k |-> <<unique_results[i].relevance_score>>,
                                v |-> unique_results[i]]]))
    IN  Take(sorted_results, 5)

(* _retrieve_knowledge; failing_pass is the pass in which search_knowledge
   raises (the embedding backend failing at run time), 0 for none: the
   except clause logs and returns [] *)
RetrieveKnowledge(query, failing_pass) ==
    /\ kb_import = "ok"
    /\ failing_pass <= Len(retrieval_passes(query))
    /\ last' = Call("_retrieve_knowledge",
                    [query |-> query, failing_pass |-> failing_pass],
                    IF failing_pass > 0 THEN << >>
                    ELSE retrieve_knowledge(chunks, embeddings, query, embedding_model,
                                            python_hash_seed, embedding_dimension),
                    FALSE)
    /\ UNCHANGED <<memory_vars, knowledge_vars, evaluation_metrics, fixed_window, now>>

(***************************************************************************)
(* AdvancedKnowledgeBase: _chunk_fixed_size, one iteration at a time        *)
(***************************************************************************)
(* the configurations 0 <= chunk_overlap < chunk_size *)
WindowConfigs ==
    {c \in [chunk_size : 2..MaxWindow, chunk_overlap : 0..MaxWindow] :
        c.chunk_overlap < c.chunk_size}

(* contents with and without terminal punctuation inside the window *)
WindowContents ==
    { << <<Sentence(<<"a">>, "."), Sentence(<<"bcdefgh">>, "")>> >>,
      << <<Sentence(<<"abcdefghij">>, "")>> >>,
      << <<Sentence(<<"abc">>, "!"), Sentence(<<"de">>, "?"), Sentence(<<"fgh">>, ".")>> >>,
      << >> }

(* chunks = []; start = 0 *)
ChunkFixedSizeCall(content, config) ==
    /\ kb_import = "ok"
    /\ fixed_window = NoWindow
    /\ fixed_window' = [content |-> content, chunk_size |-> config.chunk_size,
                        chunk_overlap |-> config.chunk_overlap, start |-> 0]
    /\ last' = Call("_chunk_fixed_size:enter", [content |-> content, config |-> config],
                    None, FALSE)
    /\ UNCHANGED <<memory_vars, knowledge_vars, evaluation_metrics, now>>

(* one pass through the body of the while loop: the window is cut and start
   moves to end - chunk_overlap *)
ChunkFixedSizeIteration ==
    /\ fixed_window # NoWindow
    /\ LET tokens == ContentTokens(fixed_window.content)
           end == WindowEnd(tokens, TokenStarts(tokens, 0), fixed_window.start,
                            fixed_window.chunk_size)
       IN  /\ fixed_window.start < JoinLen(tokens)
           /\ fixed_window' = [fixed_window EXCEPT
                                  !.start = NextStart(end, fixed_window.chunk_overlap)]
    /\ last' = Call("_chunk_fixed_size:loop", fixed_window, None, FALSE)
    /\ UNCHANGED <<memory_vars, knowledge_vars, evaluation_metrics, now>>

(* the loop is left and the chunks are returned *)
ChunkFixedSizeReturn ==
    /\ fixed_window # NoWindow
    /\ LET tokens == ContentTokens(fixed_window.content)
       IN  /\ fixed_window.start >= JoinLen(tokens)
           /\ last' = Call("_chunk_fixed_size",
                           [content |-> fixed_window.content,
                            chunk_size |-> fixed_window.chunk_size,
                            chunk_overlap |-> fixed_window.chunk_overlap],
                           FixedLoop(tokens, TokenStarts(tokens, 0), 0,
                                     fixed_window.chunk_size,
                                     fixed_window.chunk_overlap, "Doc"),
                           FALSE)
    /\ fixed_window' = NoWindow
    /\ UNCHANGED <<memory_vars, knowledge_vars, evaluation_metrics, now>>

(* _retrieve_memories: the session context and, for a named user, the
   long-term recall; an exception in either gives [] *)
retrieve_memories(query, session_id, user_id) ==
    IF Truthy(user_id) /\ RelevanceRaises(query) THEN << >>
    ELSE (IF session_id \in DOMAIN session_memories
          THEN session_context(session_memories[session_id], 5) ELSE << >>)
         \o (IF Truthy(user_id)
             THEN relevant_long_term_memories(long_term_memories, query, user_id, 3)
             ELSE << >>)

(* _calculate_knowledge_relevance: the mean relevance_score, 0.0 for none *)
RECURSIVE SumScores(_)
SumScores(results) ==
    IF results = << >> THEN 0
    ELSE Head(results).relevance_score + SumScores(Tail(results))

calculate_knowledge_relevance(knowledge_results) ==
    IF knowledge_results = << >> THEN 0
    ELSE SumScores(knowledge_results) \div Len(knowledge_results)

(* evaluation_metrics[key].append(value) on a defaultdict(list) *)
MetricsAppend(metrics, key, value) ==
    [k \in DOMAIN metrics \cup {key} |->
        IF k = key THEN Append(DictGet(metrics, key, << >>), value) ELSE metrics[k]]

(* the response times the clock can measure *)
ResponseTimes == {1, 2}

(* generate_response: knowledge and memories are retrieved, the profile of a
   named user is read (get_user_profile writes the derived fields into the
   stored profile), the turn is stored (an exception of add_session_memory is
   logged and dropped) and the metrics of the response are appended *)
GenerateResponse(user_message, session_id, user_id, response_time) ==
    /\ kb_import = "ok"
    /\ turns < MaxTurns
    /\ \E knowledge_results \in {retrieve_knowledge(chunks, embeddings, user_message,
                                                    embedding_model, python_hash_seed,
                                                    embedding_dimension)} :
       \E memory_results \in {retrieve_memories(user_message, session_id, user_id)} :
       \E profiles \in {IF Truthy(user_id) /\ user_id \in DOMAIN user_profiles
                        THEN [user_profiles EXCEPT ![user_id] = DerivedProfile(@)]
                        ELSE user_profiles} :
          /\ IF RelevanceRaises(user_message)
             THEN /\ user_profiles' = profiles
                  /\ UNCHANGED <<session_memories, long_term_memories,
                                 conversation_contexts, memory_disk>>
             ELSE \E after \in {TurnOutcome([session_memories |-> session_memories,
                                              conversation_contexts |-> conversation_contexts,
                                              user_profiles |-> profiles,
                                              long_term_memories |-> long_term_memories],
                                             session_id, user_id, user_message, now)} :
                     /\ session_memories' = after.session_memories
                     /\ conversation_contexts' = after.conversation_contexts
                     /\ user_profiles' = after.user_profiles
                     /\ long_term_memories' = after.long_term_memories
                     /\ memory_disk' = after.memory_disk
          /\ evaluation_metrics' =
                MetricsAppend(MetricsAppend(evaluation_metrics, "response_times",
                                            response_time),
                              "knowledge_relevance_scores",
                              calculate_knowledge_relevance(knowledge_results))
          /\ last' = Call("generate_response",
                          [user_message |-> user_message, session_id |-> session_id,
                           user_id |-> user_id],
                          [knowledge_sources |->
                              [i \in 1..Len(knowledge_results) |-> knowledge_results[i].title],
                           memory_used |-> Len(memory_results) > 0,
                           user_profile_used |-> Truthy(user_id),
                           response_time |-> response_time],
                          FALSE)
    /\ turns' = turns + 1
    /\ UNCHANGED <<export_file, knowledge_vars, fixed_window, now>>

(* clear_system_data: clear_user_data("all"), clear_knowledge() and
   evaluation_metrics.clear() *)
ClearSystemData ==
    /\ kb_import = "ok"
    /\ user_profiles' = [u \in DOMAIN user_profiles \ {"all"} |-> user_profiles[u]]
    /\ long_term_memories' = NotOwnedBy(long_term_memories, "all")
    /\ session_memories' = ClearSessions(session_memories, "all")
    /\ memory_disk' = save_memories(long_term_memories', user_profiles')
    /\ documents' = << >>
    /\ chunks' = << >>
    /\ embeddings' = << >>
    /\ metadata' = << >>
    /\ knowledge_disk' = NoKnowledgeFiles
    /\ evaluation_metrics' = << >>
    /\ last' = Call("clear_system_data", << >>, None, FALSE)
    /\ UNCHANGED <<conversation_contexts, export_file, turns, backend, python_hash_seed,
                   kb_import, EMBEDDING_MODEL_AVAILABLE, embedding_model,
                   embedding_dimension, fixed_window, now>>

(***************************************************************************)
(* Specifications                                                          *)
(***************************************************************************)
ClearArgs == Users \cup {"anonymous"}
RecallLimits == {1, 5}
(* the optional limit of get_session_context: omitted, 0, 1 and 2 *)
ContextLimits == {<< >>, <<0>>, <<1>>, <<2>>}

Init ==
    /\ InitMemory
    /\ InitKnowledge
    /\ evaluation_metrics = << >>
    /\ fixed_window = NoWindow
    /\ now = 0
    /\ last = Call("start", << >>, None, FALSE)

(* the Memory Store on its own: the knowledge base stays idle in fallback mode *)
InitMemoryOnly == Init /\ backend = "broken" /\ python_hash_seed = 0

NextMemory ==
    \/ \E s \in Sessions, u \in UserArgs, m \in Messages : AddTurn(s, u, m)
    \/ \E q \in Queries, u \in UserArgs, n \in RecallLimits :
          GetRelevantLongTermMemories(q, u, n)
    \/ \E u \in Users : GetUserProfile(u)
    \/ \E u \in ClearArgs : ClearUserData(u)
    \/ \E s \in Sessions, n \in ContextLimits : GetSessionContext(s, n)
    \/ \E s \in Sessions : GetConversationSummary(s)
    \/ ExportMemories
    \/ ImportMemories
    \/ RestartMemory
    \/ Tick

NextKnowledge ==
    \/ \E d \in DocumentInputs : AddDocument(d)
    \/ \E q \in KnowledgeQueries, n \in SearchLimits, c \in CategoryFilters :
          SearchKnowledge(q, n, c)
    \/ ClearKnowledge
    \/ \E b \in Backends, seed \in HashSeeds : RestartKnowledge(b, seed)

(* the Context Assembler's knowledge retrieval over an index with documents
   ingested once and twice *)
RetrievalQueries == {QueryFlu, <<"wellness", "and", "fitness", "prevent", "illness">>, << >>}

NextSystem ==
    \/ \E q \in RetrievalQueries, f \in 0..MaxPasses : RetrieveKnowledge(q, f)
    \/ \E m \in Messages, s \in Sessions, u \in UserArgs, t \in ResponseTimes :
          GenerateResponse(m, s, u, t)
    \/ ClearSystemData

NextWindow ==
    \/ \E content \in WindowContents, config \in WindowConfigs :
          ChunkFixedSizeCall(content, config)
    \/ ChunkFixedSizeIteration
    \/ ChunkFixedSizeReturn

Next == NextMemory \/ NextKnowledge \/ GetKnowledgeStats \/ NextSystem \/ NextWindow

(* the whole system *)
Spec == Init /\ [][Next]_vars

(* turns of any kind, one after the other *)
NextTurns ==
    \E s \in Sessions, u \in UserArgs, m \in Messages : AddTurn(s, u, m)

SpecTurns == InitMemoryOnly /\ [][NextTurns]_vars

(* retention and erasure: turns, the passing of time, privacy erase, restart *)
NextErase ==
    \/ \E s \in Sessions, u \in UserArgs, m \in {MsgHeadache, MsgDiagnosis} :
          AddTurn(s, u, m)
    \/ \E u \in ClearArgs : ClearUserData(u)
    \/ RestartMemory
    \/ Tick

SpecErase == InitMemoryOnly /\ [][NextErase]_vars

(* recall: turns and long-term retrieval *)
NextRecall ==
    \/ \E s \in Sessions, u \in UserArgs, m \in {MsgHeadache, MsgDiagnosis, MsgFever} :
          AddTurn(s, u, m)
    \/ \E q \in Queries, u \in UserArgs, n \in RecallLimits :
          GetRelevantLongTermMemories(q, u, n)

SpecRecall == InitMemoryOnly /\ [][NextRecall]_vars

(* profiles: turns and profile reads *)
NextProfile ==
    \/ \E u \in UserArgs, m \in Messages : AddTurn("s1", u, m)
    \/ \E u \in Users : GetUserProfile(u)

SpecProfile == InitMemoryOnly /\ [][NextProfile]_vars

(* the Knowledge Search Index on its own, the Memory Store idle *)
SpecKnowledge == Init /\ [][NextKnowledge]_vars

(* the Knowledge Search Index when every process runs in fallback mode
   (sentence_transformers installed, its model failing to load) *)
NextFallback ==
    \/ \E d \in DocumentInputs : AddDocument(d)
    \/ \E q \in KnowledgeQueries, n \in SearchLimits, c \in CategoryFilters :
          SearchKnowledge(q, n, c)
    \/ \E seed \in HashSeeds : RestartKnowledge("broken", seed)

InitFallback == Init /\ backend = "broken"

SpecFallback == InitFallback /\ [][NextFallback]_vars

(* the read operations of the Memory Store next to turns and erasure *)
NextReads ==
    \/ \E u \in {"u1", None}, m \in {MsgHeadache, MsgFever, MsgEmpty} :
          AddTurn("s1", u, m)
    \/ \E s \in Sessions, n \in ContextLimits : GetSessionContext(s, n)
    \/ \E s \in Sessions : GetConversationSummary(s)
    \/ \E q \in {MsgFever, MsgEmpty}, u \in Users :
          GetRelevantLongTermMemories(q, u, 5)
    \/ \E u \in Users : GetUserProfile(u)
    \/ \E u \in Users : ClearUserData(u)

SpecReads == InitMemoryOnly /\ [][NextReads]_vars

(* the context window: turns at different times and reads of the session *)
NextContext ==
    \/ \E s \in Sessions, m \in {MsgHeadache, MsgFever} : AddTurn(s, "u1", m)
    \/ \E s \in Sessions, n \in ContextLimits : GetSessionContext(s, n)
    \/ Tick

SpecContext == InitMemoryOnly /\ [][NextContext]_vars

(* the writes of the Memory Store: turns, erasure, export and import, and the
   passing of time *)
NextRetention ==
    \/ \E u \in {"u1", None} : AddTurn("s1", u, MsgDiagnosis)
    \/ \E u \in Users : ClearUserData(u)
    \/ ExportMemories
    \/ ImportMemories
    \/ Tick

SpecRetention == InitMemoryOnly /\ [][NextRetention]_vars

(* the Knowledge Search Index under ingest, search, statistics and clear,
   with documents ingested twice and documents that share an id *)
NextIndex ==
    \/ \E d \in IndexDocuments : AddDocument(d)
    \/ \E n \in {1, 5} : SearchKnowledge(QueryFlu, n, None)
    \/ GetKnowledgeStats
    \/ ClearKnowledge

SpecIndex == Init /\ [][NextIndex]_vars

(* the stores of a fresh manager *)
FreshStores ==
    [session_memories |-> << >>, conversation_contexts |-> << >>,
     user_profiles |-> << >>, long_term_memories |-> << >>,
     memory_disk |-> EmptyMemoryDisk]

(* the stores after n turns of u1 in session s1 at time 0, the messages
   alternating between MsgFever and MsgHeadache *)
RECURSIVE StoresAfterTurns(_)
StoresAfterTurns(n) ==
    IF n = 0 THEN FreshStores
    ELSE CHOOSE after \in {TurnOutcome(before, "s1", "u1",
                                       IF n % 2 = 1 THEN MsgFever ELSE MsgHeadache, 0) :
                              before \in {StoresAfterTurns(n - 1)}} : TRUE

(* a long conversation: the process has recorded FlowTurns turns already, or
   none, and records up to MaxTurns more *)
InitFlow ==
    /\ InitKnowledge
    /\ backend = "broken"
    /\ python_hash_seed = 0
    /\ now = 0
    /\ last = Call("start", << >>, None, FALSE)
    /\ export_file = NoExportFile
    /\ evaluation_metrics = << >>
    /\ fixed_window = NoWindow
    /\ turns = 0
    /\ \E n \in {0, FlowTurns} :
          \E stores \in {StoresAfterTurns(n)} :
             /\ session_memories = stores.session_memories
             /\ conversation_contexts = stores.conversation_contexts
             /\ user_profiles = stores.user_profiles
             /\ long_term_memories = stores.long_term_memories
             /\ memory_disk = stores.memory_disk

NextFlow ==
    \E s \in Sessions, u \in UserArgs, m \in {MsgHeadache, MsgFever} : AddTurn(s, u, m)

SpecFlow == InitFlow /\ [][NextFlow]_vars

NextAssemble ==
    \/ \E d \in DocumentInputs : AddDocument(d)
    \/ \E q \in RetrievalQueries, f \in 0..MaxPasses : RetrieveKnowledge(q, f)

SpecAssemble == Init /\ [][NextAssemble]_vars

(* persistence: turns, profile reads, erasure, the passing of time and new
   processes on the same memory_db_path *)
NextPersist ==
    \/ \E u \in {"u1", None}, m \in {MsgDiagnosis, MsgLong} : AddTurn("s1", u, m)
    \/ GetUserProfile("u1")
    \/ \E u \in Users : ClearUserData(u)
    \/ RestartMemory
    \/ Tick

SpecPersist == InitMemoryOnly /\ [][NextPersist]_vars

(* the whole assistant: responses generated, documents ingested, the system
   cleared *)
NextAssistant ==
    \/ \E m \in {MsgDiagnosis, MsgEmpty}, u \in {"u1", None}, t \in ResponseTimes :
          GenerateResponse(m, "s1", u, t)
    \/ \E d \in {DocFlu, DocNote} : AddDocument(d)
    \/ ClearSystemData

SpecAssistant == Init /\ [][NextAssistant]_vars

(* the fixed-window chunker, one loop iteration per step *)
SpecWindow == Init /\ [][NextWindow]_vars

(* the Chunker at work: documents of every strategy, some of more than
   max_chunks_per_document chunks, some with sentences and paragraphs
   longer than chunk_size *)
NextChunk ==
    \/ \E d \in ChunkDocuments : AddDocument(d)
    \/ ClearKnowledge

SpecChunk == Init /\ [][NextChunk]_vars

(***************************************************************************)
(* Properties                                                              *)
(***************************************************************************)
Owners == Users \cup {"anonymous"}

OwnedBy(memories, u) == SelectSeq(memories, LAMBDA m : m.user_id = u)

EntriesOf(sessions, s) == IF s \in DOMAIN sessions THEN sessions[s] ELSE << >>

Completed(op) == last.op = op /\ ~last.raised

(* C1: after clear_user_data(u) the profile of u, every long-term entry of u
   and every session entry of u are gone and no session is left empty, while
   every other user's profile, long-term entries and session entries are
   exactly what they were before the call *)
C1_ClearUserDataFrame ==
    [][last'.op = "clear_user_data" =>
         LET u == last'.args.user_id
         IN  /\ u \notin DOMAIN user_profiles'
             /\ OwnedBy(long_term_memories', u) = << >>
             /\ \A s \in DOMAIN session_memories' :
                   /\ session_memories'[s] # << >>
                   /\ OwnedBy(session_memories'[s], u) = << >>
             /\ \A v \in Owners \ {u} :
                   /\ (v \in DOMAIN user_profiles') = (v \in DOMAIN user_profiles)
                   /\ v \in DOMAIN user_profiles =>
                         user_profiles'[v] = user_profiles[v]
                   /\ OwnedBy(long_term_memories', v) = OwnedBy(long_term_memories, v)
                   /\ \A s \in Sessions :
                         OwnedBy(EntriesOf(session_memories', s), v)
                            = OwnedBy(EntriesOf(session_memories, s), v)
      ]_vars

FlowLength(s) ==
    IF s \in DOMAIN conversation_contexts
    THEN Len(conversation_contexts[s].conversation_flow) ELSE 0

(* clear_user_data("u1") has just removed a turn of u1 (two turns were
   recorded in this process, none has expired, one entry is left) and the
   entry left, the long-term copy and the profile belong to u2 *)
C1_Witness ==
    /\ Completed("clear_user_data")
    /\ last.args.user_id = "u1"
    /\ now = 0
    /\ turns = 2
    /\ FlowLength("s1") = 2
    /\ DOMAIN session_memories = {"s1"}
    /\ Len(session_memories["s1"]) = 1
    /\ session_memories["s1"][1].user_id = "u2"
    /\ Len(long_term_memories) = 1
    /\ "u2" \in DOMAIN user_profiles

(* C2: get_relevant_long_term_memories never returns an entry of a user other
   than the one the call is made for; a call without a user_id returns no
   entry owned by a named user *)
C2_RecallStaysWithCaller ==
    Completed("get_relevant_long_term_memories") =>
        \A i \in 1..Len(last.ret) :
            IF Truthy(last.args.user_id)
            THEN last.ret[i].user_id = last.args.user_id
            ELSE last.ret[i].user_id \notin Users

AllEntries(sessions) == UNION {Range(sessions[s]) : s \in DOMAIN sessions}

(* C3: after an add_turn call completes, neither store holds an entry whose
   timestamp is older than retention_days before the time of the call, and no
   session id maps to an empty list *)
C3_RetentionAfterAddTurn ==
    Completed("add_session_memory") =>
        /\ \A m \in AllEntries(session_memories) \cup Range(long_term_memories) :
              ~(m.timestamp < now - memory_retention_days)
        /\ \A s \in DOMAIN session_memories : session_memories[s] # << >>

(* add_turn has just completed in a session whose conversation flow still
   shows a turn recorded retention_days or more ago, and that turn's entry is
   in the session no more *)
C3_Witness ==
    /\ Completed("add_session_memory")
    /\ LET s == last.args.session_id
       IN  /\ \E i \in 1..FlowLength(s) :
                 LET t == conversation_contexts[s].conversation_flow[i].timestamp
                 IN  /\ t <= now - memory_retention_days
                     /\ \A m \in Range(EntriesOf(session_memories, s)) : m.timestamp # t
           /\ \E m \in Range(EntriesOf(session_memories, s)) : m.timestamp = now

(* the long-term store holds a copy of the turn the last call recorded *)
LastTurnPromoted ==
    \E m \in Range(long_term_memories) :
        /\ m.user_message = last.args.user_message
        /\ m.session_id = last.args.session_id
        /\ m.timestamp = now
        /\ m.memory_type = "long_term"

(* relevance_score > 0.8, from the words of the message: with k health words
   among n words, 2k/n + n/50 > 4/5 *)
ScoresAboveGate(message) ==
    LET n == Len(message)
        k == Cardinality({i \in 1..n : Lower(message[i]) \in health_keywords})
    IN  n > 0 /\ 100 * k + n * n > 40 * n

ContainsPriorityWord(message) ==
    \E i \in 1..Len(message) : Lower(message[i]) \in important_keywords

(* a priority word stands among the first ten tokens that are longer than
   two characters and no stop words *)
PriorityWordAmongFirstTen(message) ==
    \E i \in 1..Len(message) :
        /\ Lower(message[i]) \in important_keywords
        /\ Cardinality({j \in 1..(i - 1) :
                           /\ Len(Lower(message[j])) > 2
                           /\ Lower(message[j]) \notin stop_words}) < 10

(* C4 as stated: add_turn promotes exactly when the score is > 0.8 or the
   message contains a priority word as a token, however many other words the
   message has *)
C4_PromotionAsStated ==
    Completed("add_session_memory") =>
        (LastTurnPromoted <=>
            (ScoresAboveGate(last.args.user_message)
             \/ ContainsPriorityWord(last.args.user_message)))

(* C4 amended: add_turn promotes exactly when the score is > 0.8 or a
   priority word is among the first ten keywords of the message (lower-cased
   tokens longer than two characters that are no stop words) *)
C4_PromotionGate ==
    Completed("add_session_memory") =>
        (LastTurnPromoted <=>
            (ScoresAboveGate(last.args.user_message)
             \/ PriorityWordAmongFirstTen(last.args.user_message)))

(* a turn whose priority word comes after its tenth keyword has been
   recorded and is session-only *)
C4_Witness ==
    /\ Completed("add_session_memory")
    /\ ContainsPriorityWord(last.args.user_message)
    /\ ~PriorityWordAmongFirstTen(last.args.user_message)
    /\ ~LastTurnPromoted
    /\ \E m \in Range(EntriesOf(session_memories, last.args.session_id)) :
          m.user_message = last.args.user_message

(* C5: get_user_profile is a pure read: the stored profiles keep their
   counters, their sentiment distribution and every term count of
   health_interests *)
C5_GetUserProfileIsPure ==
    [][last'.op = "get_user_profile" =>
         /\ DOMAIN user_profiles' = DOMAIN user_profiles
         /\ \A u \in DOMAIN user_profiles :
               /\ user_profiles'[u].total_conversations
                     = user_profiles[u].total_conversations
               /\ user_profiles'[u].total_messages = user_profiles[u].total_messages
               /\ user_profiles'[u].sentiment_distribution
                     = user_profiles[u].sentiment_distribution
               /\ Range(user_profiles'[u].health_interests)
                     = Range(user_profiles[u].health_interests)
      ]_vars

(* C6: with the embedding backend missing or failing to load, importing and
   constructing the knowledge base does not raise and ends in fallback mode *)
C6_FallbackNeverRaises ==
    backend \in {"missing", "broken"} =>
        /\ kb_import = "ok"
        /\ embedding_model = None

SearchAll(chunk_list, embedding_map, model, seed, dimension) ==
    [q \in KnowledgeQueries |->
        search_knowledge(chunk_list, embedding_map, q, 5, None, model, seed, dimension)]

(* C7: in fallback mode a restart changes no search result: the persisted
   fallback embeddings and the query embeddings of the new process are those
   of one and the same function of the text *)
C7_RestartKeepsRanking ==
    [][last'.op = "AdvancedKnowledgeBase" =>
         SearchAll(chunks', embeddings', embedding_model', python_hash_seed',
                   embedding_dimension')
            = SearchAll(chunks, embeddings, embedding_model, python_hash_seed,
                        embedding_dimension)
      ]_vars

(* the combined scores of the stored chunks for the last search *)
StoredScores ==
    LET q == last.args.query
        e == Embed(q, embedding_model, python_hash_seed, embedding_dimension)
        scored == {i \in 1..Len(chunks) : chunks[i].id \in DOMAIN embeddings}
    IN  [i \in scored |->
            ScoreChunk(q, e, chunks[i], embeddings[chunks[i].id],
                       last.args.category_filter).similarity_score]

(* C8: search_knowledge returns a list sorted by relevance_score in
   non-increasing order, of stored chunks whose combined score is at least
   relevance_threshold, of at most limit entries, that omits no chunk scoring
   higher than a returned one; on an empty index it returns the empty list *)
C8_SearchRanking ==
    Completed("search_knowledge") =>
        LET r == last.ret
        IN  /\ Len(r) <= last.args.limit
            /\ \A i \in 1..Len(r) :
                  /\ r[i].relevance_score >= kb_relevance_threshold
                  /\ \E j \in DOMAIN StoredScores :
                        /\ chunks[j].id = r[i].chunk_id
                        /\ chunks[j].content = r[i].content
                        /\ StoredScores[j] = r[i].relevance_score
                  /\ Cardinality({j \in DOMAIN StoredScores :
                                     StoredScores[j] > r[i].relevance_score})
                        = Cardinality({k \in 1..Len(r) :
                                     r[k].relevance_score > r[i].relevance_score})
            /\ \A i \in 1..(Len(r) - 1) :
                  r[i].relevance_score >= r[i + 1].relevance_score
            /\ chunks = << >> => r = << >>

(* a search has returned two chunks of different scores, the better one
   ingested after the other *)
C8_Witness ==
    /\ Completed("search_knowledge")
    /\ Len(last.ret) = 2
    /\ last.ret[1].relevance_score > last.ret[2].relevance_score
    /\ \E i, j \in 1..Len(chunks) :
          /\ i < j
          /\ chunks[i].id = last.ret[2].chunk_id
          /\ chunks[j].id = last.ret[1].chunk_id

(* the category a document was ingested under *)
IngestCategory(document_id) ==
    {documents[i].category : i \in {j \in 1..Len(documents) : documents[j].id = document_id}}

(* C9: with category_filter = C, a chunk of a document ingested under C keeps
   its score: the filtered search returns it whenever the unfiltered one does *)
C9_FilterKeepsMatchingCategory ==
    (Completed("search_knowledge") /\ Truthy(last.args.category_filter)) =>
        LET unfiltered == search_knowledge(chunks, embeddings, last.args.query,
                                           last.args.limit, None, embedding_model,
                                           python_hash_seed, embedding_dimension)
        IN  \A i \in 1..Len(unfiltered) :
                IngestCategory(unfiltered[i].document_id) = {last.args.category_filter}
                => \E k \in 1..Len(last.ret) :
                      /\ last.ret[k].chunk_id = unfiltered[i].chunk_id
                      /\ last.ret[k].relevance_score = unfiltered[i].relevance_score

(* (terms of the category's list that occur in the query) / (length of the
   list), capped at 1 *)
ExpectedCategoryScore(category, query) ==
    LET terms == category_terms[category]
        found == {i \in 1..Len(terms) : TermInQuery(terms[i], query)}
    IN  Min(ScoreUnit, (ScoreUnit * Cardinality(found)) \div Len(terms))

(* C10: for a chunk of a document ingested under a category with a term list,
   the category score search_knowledge reports is the fraction of the list's
   terms that occur in the query *)
C10_CategoryScoreOfIngestCategory ==
    Completed("search_knowledge") =>
        \A i \in 1..Len(last.ret) :
            \A c \in IngestCategory(last.ret[i].document_id) \cap DOMAIN category_terms :
                last.ret[i].category_score = ExpectedCategoryScore(c, last.args.query)

(* the chunks add_document has just appended *)
Appended(before, after) == SubSeq(after, Len(before) + 1, Len(after))

(* C11: add_document stores at most max_chunks_per_document chunks for the
   document: the first ones its strategy produced, in order, with chunk_index
   0..n-1, after the chunks already stored *)
C11_HeadTruncation ==
    [][last'.op = "add_document" =>
         \E produced \in {StrategyChunks(last'.args)} :
            LET new == Appended(chunks, chunks')
            IN  /\ SubSeq(chunks', 1, Len(chunks)) = chunks
                /\ Len(new) <= max_chunks_per_document
                /\ Len(new) = Min(Len(produced), max_chunks_per_document)
                /\ \A i \in 1..Len(new) :
                      /\ new[i].chunk_index = i - 1
                      /\ new[i].document_id = last'.ret
                      /\ new[i].content = produced[i].content
                      /\ new[i].chunk_type = produced[i].chunk_type
      ]_vars

(* add_document has stored ten chunks of a fixed-window document whose
   strategy produced more than ten *)
C11_Witness ==
    /\ Completed("add_document")
    /\ last.args.category = "notes"
    /\ Len(StrategyChunks(last.args)) > max_chunks_per_document
    /\ Len(chunks) = max_chunks_per_document
    /\ chunks[max_chunks_per_document].chunk_index = max_chunks_per_document - 1
    /\ chunks[max_chunks_per_document].document_id = last.ret

(* C12: every stored chunk of the sentence-aware strategy that joins two or
   more sentences is at most chunk_size characters long *)
C12_JoinedSentencesFit ==
    \A i \in 1..Len(chunks) :
        (/\ chunks[i].chunk_type \in {"medical_paragraph", "medical_sentence",
                                      "split_paragraph", "long_sentence"}
         /\ chunks[i].sentence_count >= 2)
        => JoinLen(chunks[i].content) <= chunk_size

FixedWindowCategory(category) ==
    category \notin {"medical_condition", "treatment", "symptom",
                     "general", "wellness", "prevention"}

(* C13 as stated: for every content the fixed-window strategy chunks, the
   lengths of the chunks sum to at most len(content) + (chunks - 1) * overlap *)
C13_CoverageAsStated ==
    (Completed("add_document") /\ FixedWindowCategory(last.args.category)) =>
        \E produced \in {chunk_fixed_size(last.args.content, last.args.title)} :
            TotalLength(produced)
               <= JoinLen(ContentTokens(last.args.content))
                  + (Len(produced) - 1) * chunk_overlap

(* C13 amended: the bound holds for every content that yields at least one
   chunk; a content that yields none has total length 0 *)
C13_Coverage ==
    (Completed("add_document") /\ FixedWindowCategory(last.args.category)) =>
        \E produced \in {chunk_fixed_size(last.args.content, last.args.title)} :
            IF produced = << >> THEN TotalLength(produced) = 0
            ELSE TotalLength(produced)
                    <= JoinLen(ContentTokens(last.args.content))
                       + (Len(produced) - 1) * chunk_overlap

(* a content of several windows has been chunked, the second window pulled
   back to a full stop, and the overlap makes the chunks longer in total than
   the content *)
C13_Witness ==
    /\ Completed("add_document")
    /\ FixedWindowCategory(last.args.category)
    /\ \E produced \in {chunk_fixed_size(last.args.content, last.args.title)} :
          /\ Len(produced) >= 2
          /\ produced[1].end_pos < chunk_size
          /\ TotalLength(produced) > JoinLen(ContentTokens(last.args.content))

(* C14: add_session_memory and get_relevant_long_term_memories never raise
   when the text they are given is empty or holds only whitespace *)
C14_EmptyTextNeverRaises ==
    /\ (last.op = "add_session_memory" /\ last.args.user_message = << >>)
          => ~last.raised
    /\ (last.op = "get_relevant_long_term_memories" /\ last.args.query = << >>)
          => ~last.raised

(* the four in-memory collections of the Memory Store *)
memory_state == <<session_memories, long_term_memories, user_profiles, conversation_contexts>>

(* C15: the read operations and clear_user_data, given a session or user id
   the store has never seen, do not raise, return an empty list or an empty
   map, and leave the store as it was *)
C15_UnknownIdsAsStated ==
    [][/\ (last'.op = "get_session_context"
              /\ last'.args.session_id \notin DOMAIN session_memories)
          => (~last'.raised /\ last'.ret = << >> /\ UNCHANGED memory_state)
       /\ (last'.op = "get_conversation_summary"
              /\ last'.args.session_id \notin DOMAIN session_memories)
          => (~last'.raised /\ last'.ret = << >> /\ UNCHANGED memory_state)
       /\ (last'.op = "get_relevant_long_term_memories"
              /\ last'.args.query # << >>
              /\ OwnedBy(long_term_memories, last'.args.user_id) = << >>)
          => (~last'.raised /\ last'.ret = << >> /\ UNCHANGED memory_state)
       /\ (last'.op = "get_user_profile"
              /\ last'.args.user_id \notin DOMAIN user_profiles)
          => (~last'.raised /\ last'.ret = << >> /\ UNCHANGED memory_state)
       /\ (last'.op = "clear_user_data"
              /\ last'.args.user_id \notin DOMAIN user_profiles
              /\ OwnedBy(long_term_memories, last'.args.user_id) = << >>
              /\ \A m \in AllEntries(session_memories) :
                    m.user_id # last'.args.user_id)
          => (~last'.raised /\ UNCHANGED memory_state)]_vars

(* C15, amended: given a session or user id the store has never seen, none
   of the five operations raises or changes the store; get_session_context
   and get_relevant_long_term_memories return an empty list,
   get_conversation_summary an empty map, and get_user_profile the default
   profile *)
C15_UnknownIds ==
    [][/\ (last'.op = "get_session_context"
              /\ last'.args.session_id \notin DOMAIN session_memories)
          => (~last'.raised /\ last'.ret = << >> /\ UNCHANGED memory_state)
       /\ (last'.op = "get_conversation_summary"
              /\ last'.args.session_id \notin DOMAIN session_memories)
          => (~last'.raised /\ last'.ret = << >> /\ UNCHANGED memory_state)
       /\ (last'.op = "get_relevant_long_term_memories"
              /\ last'.args.query # << >>
              /\ OwnedBy(long_term_memories, last'.args.user_id) = << >>)
          => (~last'.raised /\ last'.ret = << >> /\ UNCHANGED memory_state)
       /\ (last'.op = "get_user_profile"
              /\ last'.args.user_id \notin DOMAIN user_profiles)
          => (/\ ~last'.raised
              /\ last'.ret = create_default_profile(now)
              /\ last'.ret.user_id = "anonymous"
              /\ last'.ret.total_messages = 0
              /\ UNCHANGED memory_state)
       /\ (last'.op = "clear_user_data"
              /\ last'.args.user_id \notin DOMAIN user_profiles
              /\ OwnedBy(long_term_memories, last'.args.user_id) = << >>
              /\ \A m \in AllEntries(session_memories) :
                    m.user_id # last'.args.user_id)
          => (~last'.raised /\ UNCHANGED memory_state)]_vars

(* a recall for a user without long-term entries, in a store that holds
   another caller's entries, found nothing *)
C15_Witness ==
    /\ Completed("get_relevant_long_term_memories")
    /\ long_term_memories # << >>
    /\ OwnedBy(long_term_memories, last.args.user_id) = << >>
    /\ last.ret = << >>

(* C16: promotion is a copy, not a move: when add_turn promotes a turn, the
   turn is the last entry of its session list, with memory_type "session" and
   no promoted_at, and the last long-term entry is the same entry with
   memory_type "long_term" and promoted_at set to the time of the call; and
   within one process a session entry leaves its list only in the retention
   sweep of an add_turn, once expired, or in clear_user_data for its owner *)
C16_PromotionIsCopy ==
    [][/\ (/\ last'.op = "add_session_memory"
           /\ ~last'.raised
           /\ \/ ScoresAboveGate(last'.args.user_message)
              \/ PriorityWordAmongFirstTen(last'.args.user_message))
          => /\ last'.args.session_id \in DOMAIN session_memories'
             /\ long_term_memories' # << >>
             /\ LET own == session_memories'[last'.args.session_id]
                    kept == own[Len(own)]
                    copy == long_term_memories'[Len(long_term_memories')]
                IN  /\ kept.memory_type = "session"
                    /\ "promoted_at" \notin DOMAIN kept
                    /\ kept.user_message = last'.args.user_message
                    /\ kept.timestamp = now
                    /\ copy.memory_type = "long_term"
                    /\ DOMAIN copy = DOMAIN kept \cup {"promoted_at"}
                    /\ copy.promoted_at = now
                    /\ \A f \in DOMAIN kept \ {"memory_type"} : copy[f] = kept[f]
       /\ last'.op # "AdvancedMemoryManager"
          => \A s \in DOMAIN session_memories :
               \A m \in Range(session_memories[s]) :
                  m \notin Range(EntriesOf(session_memories', s))
                  => \/ /\ last'.op = "add_session_memory"
                        /\ ~last'.raised
                        /\ m.timestamp <= now - memory_retention_days
                     \/ /\ last'.op = "clear_user_data"
                        /\ m.user_id = last'.args.user_id]_vars

(* a promoted turn of an earlier day still has both its session copy and its
   long-term copy after a later turn has been recorded *)
C16_Witness ==
    /\ Completed("add_session_memory")
    /\ \E s \in DOMAIN session_memories :
          \E m \in Range(session_memories[s]) :
             /\ m.timestamp < now
             /\ m.memory_type = "session"
             /\ \E l \in Range(long_term_memories) :
                   /\ l.memory_type = "long_term"
                   /\ l.promoted_at = m.timestamp
                   /\ l.timestamp = m.timestamp
                   /\ l.user_message = m.user_message
                   /\ l.session_id = s

(* C17: the retention cutoff is enforced on every write: once
   add_session_memory, clear_user_data or import_memories has completed,
   neither the session lists nor the long-term list hold an entry older than
   retention_days *)
C17_RetentionOnEveryWrite ==
    (Completed("add_session_memory") \/ Completed("clear_user_data")
        \/ Completed("import_memories"))
    => \A m \in AllEntries(session_memories) \cup Range(long_term_memories) :
          ~(m.timestamp < now - memory_retention_days)

(* profile['health_interests'].get(term, 0) *)
InterestCount(interests, term) ==
    IF \E i \in 1..Len(interests) : interests[i][1] = term
    THEN (CHOOSE p \in Range(interests) : p[1] = term)[2]
    ELSE 0

MessagesOf(profiles, u) == IF u \in DOMAIN profiles THEN profiles[u].total_messages ELSE 0

(* C18: across add_turn and get_user_profile calls a stored profile is only
   ever incremented: total_conversations, total_messages, the three sentiment
   counts and the count of every health_interests term never decrease, and an
   add_turn naming the user raises total_messages by exactly 1 *)
C18_ProfileOnlyGrows ==
    [][(last'.op \in {"add_session_memory", "get_user_profile"} /\ ~last'.raised)
       => /\ \A u \in DOMAIN user_profiles :
                /\ u \in DOMAIN user_profiles'
                /\ user_profiles'[u].total_conversations
                      >= user_profiles[u].total_conversations
                /\ user_profiles'[u].total_messages >= user_profiles[u].total_messages
                /\ \A c \in {"positive", "negative", "neutral"} :
                      user_profiles'[u].sentiment_distribution[c]
                         >= user_profiles[u].sentiment_distribution[c]
                /\ \A p \in Range(user_profiles[u].health_interests) :
                      InterestCount(user_profiles'[u].health_interests, p[1]) >= p[2]
          /\ (last'.op = "add_session_memory" /\ Truthy(last'.args.user_id))
                => MessagesOf(user_profiles', last'.args.user_id)
                      = MessagesOf(user_profiles, last'.args.user_id) + 1
      ]_vars

(* C19: get_session_context(session, limit) returns the entries of the
   session ordered by relevance, highest first, then by timestamp, latest
   first, cut to limit: exactly min(limit, n) of the n entries for every
   supplied limit >= 0 and min(10, n) without one; the stored list keeps its
   order *)
C19_ContextWindowAsStated ==
    [][(last'.op = "get_session_context"
           /\ last'.args.session_id \in DOMAIN session_memories)
       => LET stored == session_memories[last'.args.session_id]
              limit == last'.args.limit
              ret == last'.ret
          IN  /\ ~last'.raised
              /\ Len(ret) = Min(IF limit = << >> THEN max_context_window ELSE limit[1],
                                Len(stored))
              /\ \A i \in 1..Len(ret) : ret[i] \in Range(stored)
              /\ \A i, j \in 1..Len(ret) :
                    i < j => \/ ret[i].relevance_score > ret[j].relevance_score
                             \/ /\ ret[i].relevance_score = ret[j].relevance_score
                                /\ ret[i].timestamp >= ret[j].timestamp
              /\ \A m \in Range(stored) :
                    m \notin Range(ret)
                    => \A i \in 1..Len(ret) :
                          \/ ret[i].relevance_score > m.relevance_score
                          \/ /\ ret[i].relevance_score = m.relevance_score
                             /\ ret[i].timestamp >= m.timestamp
              /\ UNCHANGED session_memories
      ]_vars

(* the keywords an entry shares with the query of the last call *)
SharedKeywords(m) ==
    Range(extract_keywords(last.args.query)) \cap Range(m.keywords)

(* ten times the score of an entry for the query of the last call:
   6 * |shared keywords| + 4 * (1 - |query relevance - entry relevance|) *)
TenfoldScore(m) ==
    LET d == calculate_relevance_score(last.args.query) - m.relevance_score
    IN  6 * Cardinality(SharedKeywords(m)) * ScoreUnit
           + 4 * (ScoreUnit - (IF d < 0 THEN 0 - d ELSE d))

(* a returned entry without the similarity_score the call attached *)
Unscored(r) == [f \in DOMAIN r \ {"similarity_score"} |-> r[f]]

(* C20: get_relevant_long_term_memories returns long-term entries whose score
   0.6 * |shared keywords| + 0.4 * (1 - |relevance difference|) is >= 0.7,
   highest score first, at most limit of them; for a call that names its user
   they are exactly the best min(limit, k) of that user's k entries that reach
   0.7; an entry sharing no keyword is never returned and an entry of the user
   sharing two or more keywords reaches 0.7 *)
C20_RecallByScore ==
    Completed("get_relevant_long_term_memories") =>
        LET ret == last.ret
            owned == OwnedBy(long_term_memories, last.args.user_id)
            qualifying == SelectSeq(owned, LAMBDA m : TenfoldScore(m) >= 7 * ScoreUnit)
        IN  /\ Len(ret) <= last.args.limit
            /\ \A i \in 1..Len(ret) :
                  /\ Unscored(ret[i]) \in Range(long_term_memories)
                  /\ TenfoldScore(Unscored(ret[i])) >= 7 * ScoreUnit
                  /\ ret[i].similarity_score = TenfoldScore(Unscored(ret[i])) \div 10
                  /\ SharedKeywords(Unscored(ret[i])) # {}
            /\ \A i, j \in 1..Len(ret) :
                  i < j => ret[i].similarity_score >= ret[j].similarity_score
            /\ Truthy(last.args.user_id)
                  => /\ Len(ret) = Min(last.args.limit, Len(qualifying))
                     /\ \A i \in 1..Len(ret) : Unscored(ret[i]) \in Range(qualifying)
                     /\ \A m \in Range(qualifying) :
                           (\A i \in 1..Len(ret) : Unscored(ret[i]) # m)
                           => \A i \in 1..Len(ret) :
                                 TenfoldScore(Unscored(ret[i])) >= TenfoldScore(m)
                     /\ \A m \in Range(owned) :
                           Cardinality(SharedKeywords(m)) >= 2 => m \in Range(qualifying)

(* a recall for a named user returned an entry of theirs that shares
   keywords with the query and left out another of theirs that shares none *)
C20_Witness ==
    /\ Completed("get_relevant_long_term_memories")
    /\ Truthy(last.args.user_id)
    /\ Len(last.ret) >= 1
    /\ Cardinality(SharedKeywords(Unscored(last.ret[1]))) >= 2
    /\ \E m \in Range(OwnedBy(long_term_memories, last.args.user_id)) :
          /\ SharedKeywords(m) = {}
          /\ \A i \in 1..Len(last.ret) : Unscored(last.ret[i]) # m

ChunkIds == {chunks[i].id : i \in 1..Len(chunks)}

DocumentIds == {documents[i].id : i \in 1..Len(documents)}

(* every chunk belongs to a stored document and has an embedding, and every
   embedding belongs to a stored chunk *)
ReferentialIntegrity ==
    /\ \A i \in 1..Len(chunks) : chunks[i].document_id \in DocumentIds
    /\ ChunkIds \subseteq DOMAIN embeddings
    /\ DOMAIN embeddings \subseteq ChunkIds

(* C21: under add_document, search_knowledge, get_knowledge_stats and
   clear_knowledge every stored chunk's document_id is the id of a stored
   document, every chunk id has an embedding and every embedding key is the
   id of a stored chunk; chunks and embeddings go only in clear_knowledge,
   which empties documents, chunks, embeddings and metadata together *)
C21_ReferentialIntegrity ==
    /\ []ReferentialIntegrity
    /\ [][IF last'.op = "clear_knowledge"
          THEN /\ documents' = << >>
               /\ chunks' = << >>
               /\ DOMAIN embeddings' = {}
               /\ DOMAIN metadata' = {}
          ELSE /\ Len(chunks') >= Len(chunks)
               /\ SubSeq(chunks', 1, Len(chunks)) = chunks
               /\ DOMAIN embeddings \subseteq DOMAIN embeddings'
               /\ last'.op \in {"search_knowledge", "get_knowledge_stats"}
                     => UNCHANGED <<documents, chunks, embeddings, metadata>>]_vars

(* a statistics call on an index of two documents and their chunks, after
   which a clear has still to come *)
C21_Witness ==
    /\ Completed("get_knowledge_stats")
    /\ last.ret.total_documents = 2
    /\ last.ret.total_chunks >= 3
    /\ Cardinality(DocumentIds) = 2
    /\ ReferentialIntegrity

(* C25: after any sequence of add_document calls, the same document twice
   and documents with one title and one first 100 characters included, the
   stored chunk ids are unique, the embedding under a chunk's id is the
   embedding of that chunk's content, and metadata[document_id].num_chunks is
   the number of stored chunks with that document_id *)
C25_ChunkIdsUnique ==
    /\ \A i, j \in 1..Len(chunks) : chunks[i].id = chunks[j].id => i = j
    /\ \A i \in 1..Len(chunks) :
          /\ chunks[i].id \in DOMAIN embeddings
          /\ embeddings[chunks[i].id]
                = Embed(chunks[i].content, embedding_model, python_hash_seed,
                        embedding_dimension)
    /\ \A d \in DOMAIN metadata :
          metadata[d].num_chunks
             = Cardinality({i \in 1..Len(chunks) : chunks[i].document_id = d})

(* the conversation_flow record of the turn the step has recorded *)
FlowRecord(args, t) ==
    [timestamp |-> t,
     user_message |-> <<CharPrefix(args.user_message, 50), "...">>,
     sentiment |-> analyze_sentiment(args.user_message)]

FlowOf(contexts, s) ==
    IF s \in DOMAIN contexts THEN contexts[s].conversation_flow ELSE << >>

(* C22: every add_turn appends the record of its turn to the flow of its
   session and keeps the last 20 records, in order, and leaves the flows of
   the other sessions alone: each flow holds at most 20 records, those of the
   session's most recent turns in the order they were recorded *)
C22_FlowKeepsLastTwenty ==
    [][(last'.op = "add_session_memory" /\ ~last'.raised)
       => \A s \in DOMAIN conversation_contexts \cup DOMAIN conversation_contexts' :
             LET before == FlowOf(conversation_contexts, s)
                 after == FlowOf(conversation_contexts', s)
                 all == Append(before, FlowRecord(last'.args, now))
             IN  /\ Len(after) <= 20
                 /\ IF s # last'.args.session_id THEN after = before
                    ELSE IF Len(all) <= 20 THEN after = all
                    ELSE after = SubSeq(all, Len(all) - 19, Len(all))
      ]_vars

(* the twenty-first turn of a session has been recorded and its flow holds
   twenty records, the last of them the record of that turn *)
C22_Witness ==
    /\ Completed("add_session_memory")
    /\ last.args.session_id = "s1"
    /\ Len(EntriesOf(session_memories, "s1")) = 21
    /\ FlowLength("s1") = 20
    /\ conversation_contexts["s1"].conversation_flow[20] = FlowRecord(last.args, now)

(* the results of all the passes _retrieve_knowledge runs for the query of
   the last call, on the present index *)
PassResults ==
    UNION {Range(search_knowledge(chunks, embeddings, last.args.query, p.limit,
                                  p.category_filter, embedding_model, python_hash_seed,
                                  embedding_dimension)) :
             p \in Range(retrieval_passes(last.args.query))}

(* C23: the knowledge retrieval of the Context Assembler runs the direct pass
   and one pass for each of the four categories with a term in the query; it
   returns at most 5 results, no two with the same content, by decreasing
   relevance_score, each a result of one of the passes; when a pass fails it
   returns the empty list and does not raise *)
C23_KnowledgeRetrieval ==
    last.op = "_retrieve_knowledge" =>
        LET passes == retrieval_passes(last.args.query)
            ret == last.ret
        IN  /\ ~last.raised
            /\ passes[1] = [category_filter |-> None, limit |-> 3]
            /\ Len(passes) <= 5
            /\ {passes[i].category_filter : i \in 2..Len(passes)}
                  = {c \in Range(rag_categories) :
                        \E t \in Range(rag_category_terms[c]) :
                           TermInQuery(t, last.args.query)}
            /\ \A i \in 2..Len(passes) : passes[i].limit = 2
            /\ \A i, j \in 2..Len(passes) :
                  passes[i].category_filter = passes[j].category_filter => i = j
            /\ Len(ret) <= 5
            /\ \A i, j \in 1..Len(ret) : ret[i].content = ret[j].content => i = j
            /\ \A i, j \in 1..Len(ret) :
                  i < j => ret[i].relevance_score >= ret[j].relevance_score
            /\ \A i \in 1..Len(ret) : ret[i] \in PassResults
            /\ last.args.failing_pass > 0 => ret = << >>

(* a retrieval over an index that holds one content twice returned that
   content once *)
C23_Witness ==
    /\ last.op = "_retrieve_knowledge"
    /\ last.args.failing_pass = 0
    /\ Len(last.ret) >= 1
    /\ Len(retrieval_passes(last.args.query)) >= 2
    /\ \E i, j \in 1..Len(chunks) :
          /\ i < j
          /\ chunks[i].content = chunks[j].content
          /\ last.ret[1].content = chunks[i].content
    /\ Len(search_knowledge(chunks, embeddings, last.args.query, 3, None,
                            embedding_model, python_hash_seed, embedding_dimension))
          > Len(last.ret)

(* the files hold the in-memory long-term list and profiles *)
DiskEqualsMemory ==
    /\ memory_disk.long_term_memories.exists
    /\ memory_disk.long_term_memories.data = long_term_memories
    /\ memory_disk.user_profiles.exists
    /\ memory_disk.user_profiles.data = user_profiles

(* C24: when add_session_memory or clear_user_data has completed, the
   persisted long-term list and profiles equal the in-memory ones; only these
   calls write the files; and a Memory Store constructed on the path starts
   with the persisted long-term list and profiles, with none on first run,
   and with no session memories *)
C24_PersistedEqualsMemory ==
    /\ []((Completed("add_session_memory") \/ Completed("clear_user_data"))
             => DiskEqualsMemory)
    /\ [](last.op = "start"
             => /\ session_memories = << >>
                /\ long_term_memories = << >>
                /\ user_profiles = << >>)
    /\ [][/\ last'.op = "AdvancedMemoryManager"
             => /\ DOMAIN session_memories' = {}
                /\ long_term_memories'
                      = IF memory_disk.long_term_memories.exists
                        THEN memory_disk.long_term_memories.data ELSE << >>
                /\ user_profiles'
                      = IF memory_disk.user_profiles.exists
                        THEN memory_disk.user_profiles.data ELSE << >>
                /\ memory_disk' = memory_disk
          /\ last'.op \notin {"add_session_memory", "clear_user_data"}
             => memory_disk' = memory_disk]_vars

(* a new process has started on a path where a turn had been saved: it holds the saved long-term entry and the saved
   profile with all its terms, and no session *)
C24_Witness ==
    /\ last.op = "AdvancedMemoryManager"
    /\ DOMAIN session_memories = {}
    /\ long_term_memories # << >>
    /\ "u1" \in DOMAIN user_profiles
    /\ Len(user_profiles["u1"].health_interests) > 5
    /\ turns >= 1

(* C26: after clear_user_data(u) the conversation_contexts of the sessions in
   which only u spoke hold no conversation_flow record and no current_topic
   taken from u's messages *)
C26_ClearForgetsContexts ==
    [][last'.op = "clear_user_data"
       => \A s \in DOMAIN session_memories :
             (\A m \in Range(session_memories[s]) : m.user_id = last'.args.user_id)
             => \/ s \notin DOMAIN conversation_contexts'
                \/ /\ conversation_contexts'[s].conversation_flow = << >>
                   /\ conversation_contexts'[s].current_topic = ""
      ]_vars

(* C27: every profile stored under key u, and every profile get_user_profile
   returns for a user u with at least one recorded turn, has its user_id
   field equal to u *)
C27_ProfileCarriesItsUser ==
    /\ \A u \in DOMAIN user_profiles : user_profiles[u].user_id = u
    /\ (Completed("get_user_profile") /\ last.args.user_id \in DOMAIN user_profiles)
          => last.ret.user_id = last.args.user_id

(* C28: after clear_system_data the Memory Store holds no session entries, no
   long-term entries and no user profiles, the Knowledge Index holds no
   documents, chunks, embeddings or metadata, and the evaluation metrics are
   empty *)
C28_SystemCleared ==
    Completed("clear_system_data") =>
        /\ DOMAIN session_memories = {}
        /\ long_term_memories = << >>
        /\ DOMAIN user_profiles = {}
        /\ documents = << >>
        /\ chunks = << >>
        /\ DOMAIN embeddings = {}
        /\ DOMAIN metadata = {}
        /\ DOMAIN evaluation_metrics = {}

(* C29: the fixed-window chunker terminates for every content and every
   configuration 0 <= chunk_overlap < chunk_size, because every iteration of
   its loop leaves the window start strictly greater than it found it, also
   when the end was pulled back to a sentence boundary *)
C29_WindowStartIncreases ==
    [][(fixed_window # NoWindow /\ fixed_window' # NoWindow)
          => fixed_window'.start > fixed_window.start]_vars

(* the entries of a list that are younger than retention_days at time t *)
YoungerThanRetention(memories, t) ==
    SelectSeq(memories, LAMBDA m : m.timestamp > t - memory_retention_days)

(* C30: the retention sweep run by add_turn removes only expired entries: the
   session and long-term entries younger than retention_days before the call
   are all still there after it, in their order, and the turn just added is
   the last entry of its session *)
C30_SweepRemovesOnlyExpired ==
    [][(last'.op = "add_session_memory" /\ ~last'.raised) =>
          /\ \A s \in DOMAIN session_memories :
                LET kept == YoungerThanRetention(session_memories[s], now)
                IN  kept # << >> =>
                       /\ s \in DOMAIN session_memories'
                       /\ Take(session_memories'[s], Len(kept)) = kept
          /\ LET kept == YoungerThanRetention(long_term_memories, now)
             IN  Take(long_term_memories', Len(kept)) = kept
          /\ last'.args.session_id \in DOMAIN session_memories'
          /\ LET entries == session_memories'[last'.args.session_id]
                 added == entries[Len(entries)]
             IN  /\ added.user_message = last'.args.user_message
                 /\ added.timestamp = now
                 /\ Len(entries) =
                       1 + Len(YoungerThanRetention(
                                  EntriesOf(session_memories, last'.args.session_id), now))
      ]_vars

(* an add_turn has completed and left in place a session entry and a long-term
   entry that are days old but younger than retention_days *)
C30_Witness ==
    /\ Completed("add_session_memory")
    /\ \E m \in AllEntries(session_memories) :
          m.timestamp < now /\ m.timestamp > now - memory_retention_days
    /\ \E i \in 1..Len(long_term_memories) :
          /\ long_term_memories[i].timestamp < now
          /\ long_term_memories[i].timestamp > now - memory_retention_days

====
